---- MODULE Spec2Model ----
(***************************************************************************)
(* Model of gsa_admin.py: the gsaConfig class (configuration signing and   *)
(* verification, reading and writing files), the gsaWebInterface class     *)
(* (the session with the appliance and its admin operations) and the       *)
(* command line script that drives them.                                   *)
(*   Spec      one gsaConfig object under computeSignature, sign,          *)
(*             verifySignature and setXMLContents                           *)
(*   DupSpec   the same calls on documents that hold an element twice      *)
(*   FileSpec  gsaConfig with openFile and writeFile on a file system      *)
(*   CliSpec   the __main__ script from option parsing to the end of the   *)
(*             process, with the method each action calls on the appliance *)
(*   LoginSpec one gsaWebInterface instance under its admin operations,    *)
(*             each from its call to its return, exit or exception, and    *)
(*             _logout: the session state loggedIn, is72                   *)
(*   PollSpec  runCusSscript with its status polling loop                  *)
(*   CrawlSpec the all_urls action with the crawl of getAllUrls            *)
(*                                                                         *)
(* Representation.  A string of XML is a sequence of tokens.  A token is a *)
(* record [k, t, v]:                                                       *)
(*   decl        the XML declaration  <?xml version="1.0" ?>               *)
(*   open/close  <t> and </t>                                              *)
(*   empty       <t/>                                                      *)
(*   chr         a piece of character data: t = "SP10" is the literal run  *)
(*               of ten spaces, t = "NL" one newline, any other t a piece  *)
(*               of non-blank text                                         *)
(*   hmac        the 40 hex characters hmac.new(t, v, sha1).hexdigest(),   *)
(*               kept as the term (key t, message v): HMAC-SHA1 is         *)
(*               collision free in this model                              *)
(*   cdata       <![CDATA[ v ]]>, v a sequence of chr/hmac tokens          *)
(* A parsed document (xml.dom.minidom) is the sequence of its nodes in     *)
(* document order: open and close mark an Element, text is a Text node     *)
(* with data v, cdata a CDATASection with data v.                          *)
(***************************************************************************)
EXTENDS Integers, Sequences, FiniteSets, TLC

Tok(k, t, v) == [k |-> k, t |-> t, v |-> v]
Decl == Tok("decl", "", <<>>)
Open(t) == Tok("open", t, <<>>)
Close(t) == Tok("close", t, <<>>)
Empty(t) == Tok("empty", t, <<>>)
Chr(c) == Tok("chr", c, <<>>)
CData(v) == Tok("cdata", "", v)
Text(v) == Tok("text", "", v)
SP10 == Chr("SP10")
NL == Chr("NL")
UarDummy == Chr("/tmp/tmp_uar_data_dir,")
None == Tok("none", "None", <<>>)
One == Tok("int", "1", <<>>)

(* configXMLString = None, the class attribute of a gsaConfig that read no *)
(* file: not a text, and not the empty text                                *)
NoContents == <<None>>

(* hmac.new(key, msg, hashlib.sha1).hexdigest() *)
Hmac(key, msg) == Tok("hmac", key, msg)

IsAtom(x) == x.k \in {"chr", "hmac"}
IsSpace(x) == x.k = "chr" /\ x.t \in {"SP10", "NL"}

(* Outcomes of a call: a returned value, a raised exception, sys.exit(n).  *)
Return(v) == [kind |-> "return", val |-> v]
Raise(e) == [kind |-> "raise", val |-> Tok("exc", e, <<>>)]
Exit(n) == [kind |-> "exit", val |-> Tok("int", n, <<>>)]

(***************************************************************************)
(* re.sub('          <uam_dir>', '<uam_dir>', s): every run of ten spaces  *)
(* directly before an opening <uam_dir> tag is dropped.                    *)
(***************************************************************************)
RECURSIVE ReSubIndent(_)
ReSubIndent(s) ==
  IF s = <<>> THEN <<>>
  ELSE IF Len(s) >= 2 /\ s[1] = SP10 /\ s[2] = Open("uam_dir")
       THEN <<s[2]>> \o ReSubIndent(SubSeq(s, 3, Len(s)))
       ELSE <<s[1]>> \o ReSubIndent(Tail(s))

(* re.sub('</uam_dir>\n', '</uam_dir>', s) *)
RECURSIVE ReSubNewline(_)
ReSubNewline(s) ==
  IF s = <<>> THEN <<>>
  ELSE IF Len(s) >= 2 /\ s[1] = Close("uam_dir") /\ s[2] = NL
       THEN <<s[1]>> \o ReSubNewline(SubSeq(s, 3, Len(s)))
       ELSE <<s[1]>> \o ReSubNewline(Tail(s))

(***************************************************************************)
(* xml.dom.minidom.parseString.  The declaration and the white space       *)
(* outside the root element leave no node; <t/> and <t></t> both give an   *)
(* Element without children; adjacent character data is one Text node; a   *)
(* CDATA section is a node of its own (an empty one leaves no node).       *)
(***************************************************************************)
RECURSIVE ParseFrom(_, _, _, _)
ParseFrom(s, i, depth, acc) ==
  IF i > Len(s) THEN acc
  ELSE LET x == s[i] IN
    CASE x.k = "open" -> ParseFrom(s, i + 1, depth + 1, Append(acc, x))
      [] x.k = "close" -> ParseFrom(s, i + 1, depth - 1, Append(acc, x))
      [] x.k = "empty" ->
           ParseFrom(s, i + 1, depth, acc \o <<Open(x.t), Close(x.t)>>)
      [] x.k = "cdata" ->
           IF depth = 0 \/ x.v = <<>>
           THEN ParseFrom(s, i + 1, depth, acc)
           ELSE ParseFrom(s, i + 1, depth, Append(acc, x))
      [] IsAtom(x) ->
           IF depth = 0 THEN ParseFrom(s, i + 1, depth, acc)
           ELSE IF acc # <<>> /\ acc[Len(acc)].k = "text"
                THEN ParseFrom(s, i + 1, depth,
                       [acc EXCEPT ![Len(acc)].v = Append(@, x)])
                ELSE ParseFrom(s, i + 1, depth, Append(acc, Text(<<x>>)))
      [] OTHER -> ParseFrom(s, i + 1, depth, acc)

(* The tags of s nest properly (stack is the sequence of open tag names).  *)
RECURSIVE Balanced(_, _, _, _)
Balanced(s, i, stack, roots) ==
  IF i > Len(s) THEN stack = <<>> /\ roots = 1
  ELSE LET x == s[i] IN
    CASE x.k = "open" ->
           /\ (stack # <<>> \/ roots = 0)
           /\ Balanced(s, i + 1, <<x.t>> \o stack,
                       IF stack = <<>> THEN roots + 1 ELSE roots)
      [] x.k = "close" ->
           /\ stack # <<>>
           /\ Head(stack) = x.t
           /\ Balanced(s, i + 1, Tail(stack), roots)
      [] x.k = "empty" ->
           /\ (stack # <<>> \/ roots = 0)
           /\ Balanced(s, i + 1, stack,
                       IF stack = <<>> THEN roots + 1 ELSE roots)
      [] x.k = "decl" -> i = 1 /\ Balanced(s, i + 1, stack, roots)
      [] OTHER -> /\ (stack # <<>> \/ IsSpace(x))
                  /\ Balanced(s, i + 1, stack, roots)

(* What expat accepts: parseString raises ExpatError on anything else.     *)
WellFormed(s) == Balanced(s, 1, <<>>, 0)

parseString(s) == ParseFrom(s, 1, 0, <<>>)

(***************************************************************************)
(* DOM operations on a parsed document d; a node is its index in d and 0   *)
(* is Python's None.                                                       *)
(***************************************************************************)
(* the last element with the tag in document order *)
Item0_Last(d, tag) ==
  LET hits == {i \in 1..Len(d) : d[i] = Open(tag)}
  IN IF hits = {} THEN 0 ELSE CHOOSE i \in hits : \A j \in hits : i >= j

(* doc.getElementsByTagName(tag).item(0): first element in document order *)
Item0(d, tag) ==
  LET hits == {i \in 1..Len(d) : d[i] = Open(tag)}
  IN IF hits = {} THEN 0 ELSE CHOOSE i \in hits : \A j \in hits : i <= j

(* index of the end tag of the element that starts at i *)
RECURSIVE EndFrom(_, _, _)
EndFrom(d, j, depth) ==
  IF d[j].k = "open" THEN EndFrom(d, j + 1, depth + 1)
  ELSE IF d[j].k = "close"
       THEN IF depth = 1 THEN j ELSE EndFrom(d, j + 1, depth - 1)
       ELSE EndFrom(d, j + 1, depth)

EndOf(d, i) == EndFrom(d, i, 0)

(* node.parentNode.removeChild(node) *)
removeChild(d, i) == SubSeq(d, 1, i - 1) \o SubSeq(d, EndOf(d, i) + 1, Len(d))

(* node.firstChild *)
firstChild(d, i) == IF d[i + 1].k = "close" THEN 0 ELSE i + 1

(* whether node.nodeValue is a string (Text, CDATASection) or None (Element) *)
HasValue(d, n) == n # 0 /\ d[n].k \in {"text", "cdata"}

(* unicode.strip() *)
RECURSIVE LStrip(_)
LStrip(v) == IF v # <<>> /\ IsSpace(Head(v)) THEN LStrip(Tail(v)) ELSE v
RECURSIVE RStrip(_)
RStrip(v) ==
  IF v # <<>> /\ IsSpace(v[Len(v)]) THEN RStrip(SubSeq(v, 1, Len(v) - 1)) ELSE v
Strip(v) == RStrip(LStrip(v))

(* Node.writexml over the nodes i..j of d *)
RECURSIVE WriteXml(_, _, _)
WriteXml(d, i, j) ==
  IF i > j THEN <<>>
  ELSE LET x == d[i] IN
    CASE x.k = "open" ->
           IF d[i + 1].k = "close"
           THEN <<Empty(x.t)>> \o WriteXml(d, i + 2, j)
           ELSE <<x>> \o WriteXml(d, i + 1, j)
      [] x.k = "text" -> x.v \o WriteXml(d, i + 1, j)
      [] OTHER -> <<x>> \o WriteXml(d, i + 1, j)

(* element.toxml() *)
NodeToXml(d, i) == WriteXml(d, i, EndOf(d, i))

(* doc.toxml() *)
DocToXml(d) == <<Decl>> \o WriteXml(d, 1, Len(d))

(* str.count(sub) > 0 for a digest sub *)
Count(v, sub) == Cardinality({i \in 1..Len(v) : v[i] = sub})

(***************************************************************************)
(* class gsaConfig.  self is the attribute configXMLString.                *)
(***************************************************************************)
(* self.configXMLString.encode("utf-8"): the same text for text that is    *)
(* already UTF-8; None has no attribute encode                            *)
getXMLContents(self) ==
  IF self = NoContents THEN Raise("AttributeError") ELSE Return(self)
(* xmlString.encode("utf-8") is stored *)
setXMLContents(xmlString) == xmlString

(* CanonicalDoc with a uar_data rewrite that leaves the digest of the     *)
(* value out                                                               *)
CanonicalDoc_NoUarHash(self, password) ==
  IF getXMLContents(self).kind # "return" THEN getXMLContents(self)
  ELSE
  LET configXMLString == ReSubNewline(ReSubIndent(getXMLContents(self).val))
  IN IF ~WellFormed(configXMLString) THEN Raise("ExpatError")
     ELSE
     LET doc == parseString(configXMLString)
         uamdirNode == Item0(doc, "uam_dir")
     IN IF uamdirNode = 0 THEN Raise("AttributeError")
        ELSE
        LET doc1 == removeChild(doc, uamdirNode)
            uardataNode == Item0(doc1, "uar_data")
        IN IF uardataNode = 0 THEN Raise("AttributeError")
           ELSE
           LET fc == firstChild(doc1, uardataNode)
           IN IF ~HasValue(doc1, fc) THEN Raise("AttributeError")
              ELSE
              LET uardataB64contents == Strip(doc1[fc].v) \o <<NL>>
                  doc2 == IF uardataB64contents # <<NL>>
                          THEN [doc1 EXCEPT ![fc].v = <<NL, UarDummy, NL, SP10>>]
                          ELSE doc1
              IN Return(Tok("dom", "", doc2))

(* CanonicalDoc with the inner digest taken over the unstripped value *)
CanonicalDoc_NoStrip(self, password) ==
  IF getXMLContents(self).kind # "return" THEN getXMLContents(self)
  ELSE
  LET configXMLString == ReSubNewline(ReSubIndent(getXMLContents(self).val))
  IN IF ~WellFormed(configXMLString) THEN Raise("ExpatError")
     ELSE
     LET doc == parseString(configXMLString)
         uamdirNode == Item0(doc, "uam_dir")
     IN IF uamdirNode = 0 THEN Raise("AttributeError")
        ELSE
        LET doc1 == removeChild(doc, uamdirNode)
            uardataNode == Item0(doc1, "uar_data")
        IN IF uardataNode = 0 THEN Raise("AttributeError")
           ELSE
           LET fc == firstChild(doc1, uardataNode)
           IN IF ~HasValue(doc1, fc) THEN Raise("AttributeError")
              ELSE
              LET uardataB64contents == doc1[fc].v \o <<NL>>
                  uardataHash == Hmac(password, uardataB64contents)
                  doc2 == IF Strip(doc1[fc].v) # <<>>
                          THEN [doc1 EXCEPT ![fc].v =
                                  <<NL, UarDummy, uardataHash, NL, SP10>>]
                          ELSE doc1
              IN Return(Tok("dom", "", doc2))

(* The nodes of the document whose config element computeSignature        *)
(* serializes, after the removal of uam_dir and the uar_data rewrite, or   *)
(* the exception raised on the way.                                        *)
CanonicalDoc(self, password) ==
  IF getXMLContents(self).kind # "return" THEN getXMLContents(self)
  ELSE
  LET configXMLString == ReSubNewline(ReSubIndent(getXMLContents(self).val))
  IN IF ~WellFormed(configXMLString) THEN Raise("ExpatError")
     ELSE
     LET doc == parseString(configXMLString)
         uamdirNode == Item0(doc, "uam_dir")
     IN IF uamdirNode = 0 THEN Raise("AttributeError")
        ELSE
        LET doc1 == removeChild(doc, uamdirNode)
            uardataNode == Item0(doc1, "uar_data")
        IN IF uardataNode = 0 THEN Raise("AttributeError")
           ELSE
           LET fc == firstChild(doc1, uardataNode)
           IN IF ~HasValue(doc1, fc) THEN Raise("AttributeError")
              ELSE
              LET uardataB64contents == Strip(doc1[fc].v) \o <<NL>>
                  uardataHash == Hmac(password, uardataB64contents)
                  doc2 == IF uardataB64contents # <<NL>>
                          THEN [doc1 EXCEPT ![fc].v =
                                  <<NL, UarDummy, uardataHash, NL, SP10>>]
                          ELSE doc1
              IN Return(Tok("dom", "", doc2))

(* computeSignature that hashes the root element when config is absent *)
computeSignature_RootFallback(self, password) ==
  LET c == CanonicalDoc(self, password)
  IN IF c.kind # "return" THEN c
     ELSE LET doc == c.val.v
              configNode == Item0(doc, "config")
          IN IF configNode = 0
             THEN Return(Hmac(password, WriteXml(doc, 1, Len(doc))))
             ELSE Return(Hmac(password, NodeToXml(doc, configNode)))

computeSignature(self, password) ==
  LET c == CanonicalDoc(self, password)
  IN IF c.kind # "return" THEN c
     ELSE LET doc == c.val.v
              configNode == Item0(doc, "config")
          IN IF configNode = 0 THEN Raise("AttributeError")
             ELSE Return(Hmac(password, NodeToXml(doc, configNode)))

(* sign, lines 165-168: the first signature element of doc gets the        *)
(* digest as the data of its first child; gives the changed document or    *)
(* the AttributeError of the None that was dereferenced.  Assigning        *)
(* nodeValue on a first child that is an Element changes nothing.          *)
SetSignature(doc, computedSignature) ==
  LET signatureNode == Item0(doc, "signature")
  IN IF signatureNode = 0 THEN Raise("AttributeError")
     ELSE IF firstChild(doc, signatureNode) = 0 THEN Raise("AttributeError")
     ELSE IF HasValue(doc, firstChild(doc, signatureNode))
     THEN Return(Tok("dom", "",
            [doc EXCEPT ![firstChild(doc, signatureNode)].v = <<computedSignature>>]))
     ELSE Return(Tok("dom", "", doc))

(* sign, line 169: self.setXMLContents(doc.toxml()) *)
StoreSigned(self, r) ==
  IF r.kind # "return" THEN [out |-> r, self |-> self]
  ELSE [out |-> Return(None), self |-> setXMLContents(DocToXml(r.val.v))]

(* sign, lines 161-169, given the outcome of computeSignature *)
SignWith(self, computedSignature) ==
  IF computedSignature.kind # "return"
  THEN [out |-> computedSignature, self |-> self]
  ELSE IF ~WellFormed(getXMLContents(self).val)
  THEN [out |-> Raise("ExpatError"), self |-> self]
  ELSE StoreSigned(self, SetSignature(parseString(getXMLContents(self).val),
                                      computedSignature.val))

(* sign and verifySignature give the outcome and the new configXMLString *)
sign(self, password) == SignWith(self, computeSignature(self, password))

(* verifySignature, lines 187-199, on the parsed document *)
CheckSignature(doc, computedSignature) ==
  LET signatureNode == Item0(doc, "signature")
  IN IF signatureNode = 0 THEN Raise("AttributeError")
     ELSE IF ~HasValue(doc, firstChild(doc, signatureNode))
     THEN Raise("AttributeError")
     ELSE IF Count(doc[firstChild(doc, signatureNode)].v, computedSignature) > 0
     THEN Return(One)
     ELSE Return(None)

(* VerifyWith that keeps the rewritten text in self.configXMLString *)
VerifyWith_Stores(self, computedSignature) ==
  IF computedSignature.kind # "return"
  THEN [out |-> computedSignature, self |-> self]
  ELSE IF ~WellFormed(getXMLContents(self).val)
  THEN [out |-> Raise("ExpatError"), self |-> self]
  ELSE [out |-> CheckSignature(parseString(getXMLContents(self).val),
                               computedSignature.val),
        self |-> ReSubNewline(ReSubIndent(getXMLContents(self).val))]

(* verifySignature, lines 183-199, given the outcome of computeSignature *)
VerifyWith(self, computedSignature) ==
  IF computedSignature.kind # "return"
  THEN [out |-> computedSignature, self |-> self]
  ELSE IF ~WellFormed(getXMLContents(self).val)
  THEN [out |-> Raise("ExpatError"), self |-> self]
  ELSE [out |-> CheckSignature(parseString(getXMLContents(self).val),
                               computedSignature.val),
        self |-> self]

verifySignature(self, password) ==
  VerifyWith(self, computeSignature(self, password))

(***************************************************************************)
(* The documents a gsaConfig is constructed from.  A document is           *)
(*   <?xml ..?> NL <eef> <config> uam_dir uar_data [signature] </config>   *)
(*   [signature] </eef>                                                    *)
(* and the choice c says which form each part takes.                       *)
(***************************************************************************)
MaxCalls == 3
MaxDefects == 1

Passwords == {"hellohello", "goodbye-bye"}
(* the passwords documents are signed with *)
SignPasswords == {"hellohello"}

UamForms == {"none", "empty", "pair", "text"}
UarForms == {"none", "pair", "elem", "blank", "padded", "cdata"}
SigForms == {"none", "pair", "elem", "text"}

UamPart(c) ==
  IF c.uam = "none" THEN <<>>
  ELSE (IF c.ws THEN <<NL, SP10>> ELSE <<>>)
       \o (CASE c.uam = "empty" -> <<Empty("uam_dir")>>
             [] c.uam = "pair" -> <<Open("uam_dir"), Close("uam_dir")>>
             [] c.uam = "text" ->
                  <<Open("uam_dir"), Chr("D"), Close("uam_dir")>>)
       \o (IF c.ws THEN <<NL>> ELSE <<>>)

UarPart(c) ==
  CASE c.uar = "none" -> <<>>
    [] c.uar = "pair" -> <<Open("uar_data"), Close("uar_data")>>
    [] c.uar = "elem" -> <<Open("uar_data"), Empty("x"), Close("uar_data")>>
    [] c.uar = "blank" -> <<Open("uar_data"), NL, SP10, Close("uar_data")>>
    [] c.uar = "padded" ->
         <<Open("uar_data"), NL, Chr("A"), NL, SP10, Close("uar_data")>>
    [] c.uar = "cdata" ->
         <<Open("uar_data"), CData(<<Chr("A"), NL, SP10>>), Close("uar_data")>>

SigPart(c) ==
  CASE c.sig = "none" -> <<>>
    [] c.sig = "pair" -> <<Open("signature"), Close("signature")>>
    [] c.sig = "elem" -> <<Open("signature"), Empty("x"), Close("signature")>>
    [] c.sig = "text" ->
         <<Open("signature"), NL, Chr("OLD"), NL, Close("signature")>>

Doc(c) ==
  LET body == UamPart(c) \o UarPart(c)
                \o (IF c.sigin THEN SigPart(c) ELSE <<>>)
  IN <<Decl, NL, Open("eef")>>
     \o (IF c.config THEN <<Open("config")>> \o body \o <<Close("config")>>
         ELSE body)
     \o (IF c.sigin THEN <<>> ELSE SigPart(c))
     \o <<Close("eef"), NL>>

(* the number of parts of c that are missing or hold no text *)
Defects(c) ==
  (IF c.uam = "none" THEN 1 ELSE 0)
  + (IF c.uar \in {"none", "pair", "elem"} THEN 1 ELSE 0)
  + (IF c.sig \in {"none", "pair", "elem"} THEN 1 ELSE 0)
  + (IF c.config THEN 0 ELSE 1)

Choices ==
  {c \in [uam : UamForms, ws : BOOLEAN, uar : UarForms, sig : SigForms,
          sigin : BOOLEAN, config : BOOLEAN] :
     /\ Defects(c) <= MaxDefects
     /\ (c.uam = "none" => ~c.ws)
     /\ (c.sigin => c.sig = "text")}

Docs == {Doc(c) : c \in Choices}

(***************************************************************************)
(* Changes made to the stored text between two calls.  Each takes the text *)
(* s and gives the changed text (s itself where it does not apply).        *)
(***************************************************************************)
First(s, x) ==
  LET hits == {i \in 1..Len(s) : s[i] = x}
  IN IF hits = {} THEN 0 ELSE CHOOSE i \in hits : \A j \in hits : i <= j

Insert(s, i, x) == SubSeq(s, 1, i - 1) \o <<x>> \o SubSeq(s, i, Len(s))
Remove(s, i) == SubSeq(s, 1, i - 1) \o SubSeq(s, i + 1, Len(s))

(* the content of uam_dir becomes the text E (D if it was E) *)
TamperUamContent(s) ==
  LET e == First(s, Empty("uam_dir"))
      o == First(s, Open("uam_dir"))
      c == First(s, Close("uam_dir"))
      new(old) == IF old = <<Chr("E")>> THEN <<Chr("D")>> ELSE <<Chr("E")>>
  IN IF o # 0 /\ c > o
     THEN SubSeq(s, 1, o) \o new(SubSeq(s, o + 1, c - 1))
            \o SubSeq(s, c, Len(s))
     ELSE IF e # 0
     THEN SubSeq(s, 1, e - 1)
            \o <<Open("uam_dir"), Chr("E"), Close("uam_dir")>>
            \o SubSeq(s, e + 1, Len(s))
     ELSE s

(* the ten spaces before <uam_dir> are removed (added if there were none) *)
TamperIndent(s) ==
  LET o == First(s, Open("uam_dir"))
  IN IF o = 0 THEN s
     ELSE IF s[o - 1] = SP10 THEN Remove(s, o - 1) ELSE Insert(s, o, SP10)

(* the newline after </uam_dir> is removed (added if there was none) *)
TamperNewline(s) ==
  LET c == First(s, Close("uam_dir"))
  IN IF c = 0 THEN s
     ELSE IF s[c + 1] = NL THEN Remove(s, c + 1) ELSE Insert(s, c + 1, NL)

(* the value A of uar_data becomes B, and B becomes A *)
Swap(x) == IF x = Chr("A") THEN Chr("B") ELSE IF x = Chr("B") THEN Chr("A") ELSE x
SwapSeq(v) == [i \in 1..Len(v) |-> Swap(v[i])]
TamperUarValue(s) ==
  LET o == First(s, Open("uar_data"))
      c == First(s, Close("uar_data"))
  IN IF o = 0 \/ c < o THEN s
     ELSE [i \in 1..Len(s) |->
             IF i > o /\ i < c
             THEN IF s[i].k = "cdata" THEN CData(SwapSeq(s[i].v)) ELSE Swap(s[i])
             ELSE s[i]]

(* a newline is put in front of the text of uar_data *)
TamperUarPadding(s) ==
  LET o == First(s, Open("uar_data"))
  IN IF o = 0 THEN s
     ELSE IF s[o + 1].k = "cdata"
          THEN [s EXCEPT ![o + 1].v = <<NL>> \o @]
          ELSE IF IsAtom(s[o + 1]) THEN Insert(s, o + 1, NL) ELSE s

(* the text X is put at the start of config (removed if it was there) *)
TamperOther(s) ==
  LET o == First(s, Open("config"))
  IN IF o = 0 THEN s
     ELSE IF s[o + 1] = Chr("X") THEN Remove(s, o + 1)
          ELSE Insert(s, o + 1, Chr("X"))

TamperKinds == {"uam_content", "indent", "newline", "uar_value",
                "uar_padding", "other"}

Tampered(s, kind) ==
  CASE kind = "uam_content" -> TamperUamContent(s)
    [] kind = "indent" -> TamperIndent(s)
    [] kind = "newline" -> TamperNewline(s)
    [] kind = "uar_value" -> TamperUarValue(s)
    [] kind = "uar_padding" -> TamperUarPadding(s)
    [] kind = "other" -> TamperOther(s)

(***************************************************************************)
(* Other ways to write a signature element that holds the digest h: the    *)
(* digest between newlines, in a CDATA section, and in a CDATA section     *)
(* that follows a newline.  Rewritten gives the text s with the first      *)
(* signature element written that way (s itself unless its content is one  *)
(* digest).                                                                *)
(***************************************************************************)
SignatureForms == {"padded", "cdata", "ws_cdata"}

Rewritten(s, form) ==
  LET o == First(s, Open("signature"))
      c == First(s, Close("signature"))
  IN IF o = 0 \/ c # o + 2 \/ s[o + 1].k # "hmac" THEN s
     ELSE SubSeq(s, 1, o)
          \o (CASE form = "padded" -> <<NL, s[o + 1], NL>>
                [] form = "cdata" -> <<CData(<<NL, s[o + 1], NL>>)>>
                [] form = "ws_cdata" -> <<NL, CData(<<s[o + 1]>>), NL>>)
          \o SubSeq(s, c, Len(s))

(***************************************************************************)
(* The state: one gsaConfig object (configXMLString), the record of the    *)
(* calls made on it (log), the files on disk (fs), the command line        *)
(* process (cli), the HTTP requests sent to the appliance (requests), one  *)
(* gsaWebInterface instance (gsaWI) and the method running on it (frame).  *)
(***************************************************************************)
VARIABLES configXMLString, log, fs, cli, requests, gsaWI, frame

vars == <<configXMLString, log, fs, cli, requests, gsaWI, frame>>

(* what the other parts of the state are while one gsaConfig is exercised  *)
NoFiles == <<>>
NoCli == [pc |-> "none"]
NoInstance == [made |-> FALSE]
NoFrame == [pc |-> "none"]
NoWeb == gsaWI = NoInstance /\ frame = NoFrame
ObjectOnly == fs = NoFiles /\ cli = NoCli /\ requests = <<>> /\ NoWeb

(* the process has not called sys.exit *)
Running == IF log = <<>> THEN TRUE ELSE log[Len(log)].out.kind # "exit"

Call(op, password, kind, out) ==
  [op |-> op, pw |-> password, kind |-> kind, out |-> out]

Init ==
  /\ configXMLString \in Docs
  /\ log = <<>>
  /\ ObjectOnly

ComputeSignature(password) ==
  /\ Len(log) < MaxCalls
  /\ Running
  /\ log' = Append(log, Call("computeSignature", password, "",
                             computeSignature(configXMLString, password)))
  /\ UNCHANGED <<configXMLString, fs, cli, requests, gsaWI, frame>>

Sign(password) ==
  /\ Len(log) < MaxCalls
  /\ Running
  /\ LET r == sign(configXMLString, password)
     IN /\ configXMLString' = r.self
        /\ log' = Append(log, Call("sign", password, "", r.out))
  /\ UNCHANGED <<fs, cli, requests, gsaWI, frame>>

VerifySignature(password) ==
  /\ Len(log) < MaxCalls
  /\ Running
  /\ LET r == verifySignature(configXMLString, password)
     IN /\ configXMLString' = r.self
        /\ log' = Append(log, Call("verifySignature", password, "", r.out))
  /\ UNCHANGED <<fs, cli, requests, gsaWI, frame>>

(* setXMLContents with an altered copy of the signed text *)
Tamper(kind) ==
  /\ Len(log) < MaxCalls
  /\ log # <<>>
  /\ log[Len(log)].op = "sign"
  /\ log[Len(log)].out.kind = "return"
  /\ Tampered(configXMLString, kind) # configXMLString
  /\ configXMLString' = setXMLContents(Tampered(configXMLString, kind))
  /\ log' = Append(log, Call("setXMLContents", "", kind, Return(None)))
  /\ UNCHANGED <<fs, cli, requests, gsaWI, frame>>

(* setXMLContents with the signed text, its signature written another way *)
RewriteSignature(form) ==
  /\ Len(log) < MaxCalls
  /\ log # <<>>
  /\ log[Len(log)].op = "sign"
  /\ log[Len(log)].out.kind = "return"
  /\ Rewritten(configXMLString, form) # configXMLString
  /\ configXMLString' = setXMLContents(Rewritten(configXMLString, form))
  /\ log' = Append(log, Call("setXMLContents", "", form, Return(None)))
  /\ UNCHANGED <<fs, cli, requests, gsaWI, frame>>

Next ==
  \/ \E password \in Passwords : ComputeSignature(password)
  \/ \E password \in SignPasswords : Sign(password)
  \/ \E password \in Passwords : VerifySignature(password)
  \/ \E kind \in TamperKinds : Tamper(kind)
  \/ \E form \in SignatureForms : RewriteSignature(form)

Spec == Init /\ [][Next]_vars

(***************************************************************************)
(* gsaConfig and the files on disk.  fs gives for each path whether a file *)
(* exists there and its text.                                              *)
(***************************************************************************)
Paths == {"in.xml", "out.xml"}
NoFile == [exists |-> FALSE, text |-> <<>>]
File(text) == [exists |-> TRUE, text |-> text]

(* openFile, lines 110-117: the outcome and the new configXMLString *)
openFile(self, fileName, files) ==
  IF ~files[fileName].exists
  THEN [out |-> Exit("1"), self |-> self]
  ELSE [out |-> Return(None), self |-> files[fileName].text]

(* str.replace("<eef>", "\n<eef>", 1) *)
ReplaceEef(s) ==
  IF First(s, Open("eef")) = 0 THEN s ELSE Insert(s, First(s, Open("eef")), NL)

(* writeFile that writes over a file that exists *)
writeFile_Overwrites(self, filename, files) ==
  IF self = NoContents
  THEN [out |-> Raise("TypeError"), files |-> files]
  ELSE IF ~WellFormed(self)
  THEN [out |-> Raise("ExpatError"), files |-> files]
  ELSE [out |-> Return(None),
        files |-> [files EXCEPT ![filename] =
                     File(ReplaceEef(DocToXml(parseString(self))))]]

(* writeFile, lines 171-179: the outcome and the new files; parseString of *)
(* None is a TypeError                                                     *)
writeFile(self, filename, files) ==
  IF files[filename].exists
  THEN [out |-> Exit("1"), files |-> files]
  ELSE IF self = NoContents
  THEN [out |-> Raise("TypeError"), files |-> files]
  ELSE IF ~WellFormed(self)
  THEN [out |-> Raise("ExpatError"), files |-> files]
  ELSE [out |-> Return(None),
        files |-> [files EXCEPT ![filename] =
                     File(ReplaceEef(DocToXml(parseString(self))))]]

(* the texts found in files: a signed-looking document with every part, a  *)
(* document without a signature element, and a text that is not XML        *)
FullDoc ==
  Doc([uam |-> "text", ws |-> TRUE, uar |-> "cdata", sig |-> "text",
       sigin |-> FALSE, config |-> TRUE])
UnsignedDoc ==
  Doc([uam |-> "text", ws |-> TRUE, uar |-> "cdata", sig |-> "none",
       sigin |-> FALSE, config |-> TRUE])
Malformed == <<Decl, NL, Open("eef"), Open("config"), Close("eef"), NL>>
FileDocs == {FullDoc, UnsignedDoc, Malformed}

FileInit ==
  /\ configXMLString = NoContents
  /\ log = <<>>
  /\ fs \in [Paths -> {NoFile} \cup {File(d) : d \in FileDocs}]
  /\ cli = NoCli
  /\ requests = <<>>
  /\ NoWeb

(* the object is gsaConfig() at first; openFile(fileName), as             *)
(* gsaConfig(fileName) calls it, or later on                               *)
OpenFile(fileName) ==
  /\ Len(log) < MaxCalls
  /\ Running
  /\ LET r == openFile(configXMLString, fileName, fs)
     IN /\ configXMLString' = r.self
        /\ log' = Append(log, Call("openFile", "", fileName, r.out))
  /\ UNCHANGED <<fs, cli, requests, gsaWI, frame>>

WriteFile(filename) ==
  /\ Len(log) < MaxCalls
  /\ Running
  /\ LET r == writeFile(configXMLString, filename, fs)
     IN /\ fs' = r.files
        /\ log' = Append(log, Call("writeFile", "", filename, r.out))
  /\ UNCHANGED <<configXMLString, cli, requests, gsaWI, frame>>

(* sign and verifySignature on the object, whether or not it read a file *)
FileSign(password) == Sign(password)
FileVerifySignature(password) == VerifySignature(password)

FileNext ==
  \/ \E fileName \in Paths : OpenFile(fileName)
  \/ \E filename \in Paths : WriteFile(filename)
  \/ \E password \in SignPasswords : FileSign(password)
  \/ \E password \in SignPasswords : FileVerifySignature(password)

FileSpec == FileInit /\ [][FileNext]_vars

(***************************************************************************)
(* Documents that hold an element twice.  The first uam_dir holds D, the   *)
(* first uar_data A, the first signature OLD; the later duplicate holds    *)
(* D2, A2, C2 (a second config) or OLD2.  In "signed2" the later signature *)
(* holds the digest of the document under the signing password.            *)
(***************************************************************************)
DupKinds == {"uam_dir", "uam_dir_ws", "uar_data", "config", "signature",
             "signed2"}

DupText(dup, second) ==
  <<Decl, NL, Open("eef"), Open("config"),
    NL, SP10, Open("uam_dir"), Chr("D"), Close("uam_dir"), NL,
    Open("uar_data"), CData(<<Chr("A"), NL, SP10>>), Close("uar_data")>>
  \o (CASE dup = "uam_dir" ->
              <<Open("uam_dir"), Chr("D2"), Close("uam_dir")>>
        [] dup = "uam_dir_ws" ->
              <<NL, SP10, Open("uam_dir"), Chr("D2"), Close("uam_dir"), NL>>
        [] dup = "uar_data" ->
              <<Open("uar_data"), CData(<<Chr("A2"), NL, SP10>>),
                Close("uar_data")>>
        [] OTHER -> <<>>)
  \o <<Close("config")>>
  \o (IF dup = "config"
      THEN <<Open("config"), Chr("C2"), Close("config")>> ELSE <<>>)
  \o <<Open("signature"), NL, Chr("OLD"), NL, Close("signature")>>
  \o (IF dup \in {"signature", "signed2"}
      THEN <<Open("signature"), second, Close("signature")>> ELSE <<>>)
  \o <<Close("eef"), NL>>

DupDoc(dup) ==
  IF dup = "signed2"
  THEN DupText(dup, computeSignature(DupText(dup, Chr("OLD2")),
                                     "hellohello").val)
  ELSE DupText(dup, Chr("OLD2"))

DupDocs == {DupDoc(dup) : dup \in DupKinds}

DupInit ==
  /\ configXMLString \in DupDocs
  /\ log = <<>>
  /\ ObjectOnly

DupSpec == DupInit /\ [][Next]_vars

(***************************************************************************)
(* The command line program (__main__).  cli holds the parsed options (a   *)
(* string option that was not given is "", --max-hostload is the sequence  *)
(* of its characters, --sources the sequence of its names and commas), the *)
(* selected action and the position pc of the process; -t is the sequence  *)
(* of its characters too.  The options that only change the parameters of  *)
(* a request (--collection, --port) or the logging (-v) are left out.      *)
(* Every call on the gsaConfig object and every sys.exit or uncaught       *)
(* exception of the script is appended to log, every HTTP request to       *)
(* requests.                                                               *)
(***************************************************************************)
MaxFlags == 2

(* dest of the thirteen action options *)
ActionFlags == {"actimport", "export", "sign", "verify", "setaccesscontrol",
                "all_urls", "export_all_urls", "database_sync",
                "keymatches_export", "synonyms_export", "getstatus",
                "getcollection", "cus_sscript"}

(* the option tested and the action it selects, in the order of the tests *)
FlagOrder ==
  << <<"actimport", "import">>, <<"setaccesscontrol", "setaccesscontrol">>,
     <<"export", "export">>, <<"sign", "sign">>, <<"verify", "verify">>,
     <<"all_urls", "all_urls">>, <<"export_all_urls", "export_all_urls">>,
     <<"database_sync", "database_sync">>,
     <<"keymatches_export", "keymatches_export">>,
     <<"synonyms_export", "synonyms_export">>, <<"getstatus", "status">>,
     <<"getcollection", "getcollection">>, <<"cus_sscript", "cus_sscript">> >>

(* the actions that have a branch in the if/elif chain of lines 1044-1214 *)
Branches == {"sign", "import", "export", "verify", "setaccesscontrol",
             "all_urls", "export_all_urls", "database_sync",
             "keymatches_export", "synonyms_export", "status",
             "getcollection", "cus_sscript"}

Pass == Return(None)
Action(name) == Return(Tok("str", name, <<>>))

(* lines 931-939 *)
CheckSignPassword(options) ==
  IF options.flags \cap {"actimport", "export", "sign", "verify"} # {}
  THEN IF options.signpassword = "" THEN Exit("3")
       ELSE IF Len(options.signpassword) < 8 THEN Exit("3")
       ELSE Pass
  ELSE Pass

(* lines 949-1028 from the i-th test on, action "" being None *)
RECURSIVE SelectFrom(_, _, _)
SelectFrom(options, i, action) ==
  IF i > Len(FlagOrder)
  THEN IF action = "" THEN Exit("3") ELSE Action(action)
  ELSE IF FlagOrder[i][1] \in options.flags
       THEN IF action # "" THEN Exit("3")
            ELSE SelectFrom(options, i + 1, FlagOrder[i][2])
       ELSE SelectFrom(options, i + 1, action)

SelectAction(options) == SelectFrom(options, 1, "")

(* lines 1031-1041 *)
CheckHost(options, action) ==
  IF action # "sign" \/ action # "verify"
  THEN IF options.gsaHostName = "" THEN Exit("3")
       ELSE IF options.gsaUsername = "" THEN Exit("3")
       ELSE IF options.gsaPassword = "" THEN Exit("3")
       ELSE Pass
  ELSE Pass

(* the value of an option is the sequence of its characters, " " being a  *)
(* white space character; s without the white space at its head           *)
RECURSIVE LStripStr(_)
LStripStr(s) ==
  IF s = <<>> THEN s
  ELSE IF Head(s) = " " THEN LStripStr(Tail(s)) ELSE s

(* s without the white space at its end *)
RECURSIVE RStripStr(_)
RStripStr(s) ==
  IF s = <<>> THEN s
  ELSE IF s[Len(s)] = " " THEN RStripStr(SubSeq(s, 1, Len(s) - 1)) ELSE s

(* what int(s) reads as digits: s without the white space around it, its  *)
(* sign and the white space after the sign                                 *)
Unsigned(s) ==
  IF RStripStr(LStripStr(s)) = <<>> THEN <<>>
  ELSE IF Head(RStripStr(LStripStr(s))) \in {"+", "-"}
  THEN LStripStr(Tail(RStripStr(LStripStr(s))))
  ELSE RStripStr(LStripStr(s))

DigitValue(c) ==
  CASE c = "0" -> 0 [] c = "1" -> 1 [] c = "2" -> 2 [] c = "3" -> 3
    [] c = "4" -> 4 [] c = "5" -> 5 [] c = "6" -> 6 [] c = "7" -> 7
    [] c = "8" -> 8 [] c = "9" -> 9 [] OTHER -> 10

(* int(s), lines 943 and 1096, returns: s is a decimal number with or      *)
(* without a sign; otherwise it raises ValueError                          *)
IsInt(s) ==
  /\ Unsigned(s) # <<>>
  /\ \A i \in 1..Len(Unsigned(s)) : DigitValue(Unsigned(s)[i]) < 10

(* the number the digits s stand for after the number n *)
RECURSIVE DigitsFrom(_, _)
DigitsFrom(s, n) ==
  IF s = <<>> THEN n
  ELSE DigitsFrom(Tail(s), 10 * n + DigitValue(Head(s)))

(* the value of int(s) *)
IntOf(s) ==
  IF Head(LStripStr(s)) = "-" THEN 0 - DigitsFrom(Unsigned(s), 0)
  ELSE DigitsFrom(Unsigned(s), 0)

(* lines 941-947: a -t that is not an integer; the handler of the          *)
(* ValueError names timeout, which was not bound, and ends in NameError    *)
CheckTimeout(options) ==
  IF options.timeout # <<>> /\ ~IsInt(options.timeout)
  THEN Raise("NameError")
  ELSE Pass

(* lines 931-1041: sys.exit(3), the NameError of line 946, or the action   *)
(* selected                                                                *)
Main(options) ==
  IF CheckSignPassword(options) # Pass THEN CheckSignPassword(options)
  ELSE IF CheckTimeout(options) # Pass THEN CheckTimeout(options)
  ELSE IF SelectAction(options).kind = "exit" THEN SelectAction(options)
  ELSE IF CheckHost(options, SelectAction(options).val.t) # Pass
  THEN CheckHost(options, SelectAction(options).val.t)
  ELSE SelectAction(options)

(* the option checks at the head of the branch of the action, lines        *)
(* 1045-1051, 1060-1062, 1072-1074, 1082-1084, 1094-1110, 1113-1115,       *)
(* 1129-1131, 1144-1146, 1154-1159, 1172-1177 and 1199-1204: sys.exit(3),  *)
(* or the NameError of line 1099 when the max host load is not an integer  *)
(* (the handler of the ValueError names maxhostload, which was not bound)  *)
BranchChecks(options, action) ==
  IF action \in {"sign", "import", "verify", "cus_sscript"}
       /\ options.inputFile = ""
  THEN Exit("3")
  ELSE IF action \in {"sign", "export", "all_urls", "export_all_urls",
                      "keymatches_export", "synonyms_export", "cus_sscript"}
            /\ options.outputFile = ""
  THEN Exit("3")
  ELSE IF action \in {"keymatches_export", "synonyms_export"}
            /\ options.frontend = ""
  THEN Exit("3")
  ELSE IF action = "database_sync" /\ options.sources = <<>> THEN Exit("3")
  ELSE IF action = "setaccesscontrol" /\ options.maxhostload = <<>>
  THEN Exit("3")
  ELSE IF action = "setaccesscontrol" /\ ~IsInt(options.maxhostload)
  THEN Raise("NameError")
  ELSE Pass

(* an import that stops when the signature does not match *)
AfterImportVerify_Strict(r) ==
  IF r.kind # "return" THEN "crash"
  ELSE IF r = Return(None) THEN "exit" ELSE "import"

(* lines 1065-1066: where the import branch goes after verifySignature     *)
(* gave r; a false result is logged as a warning only                      *)
AfterImportVerify(r) ==
  IF r.kind # "return" THEN "crash" ELSE "import"

(* a request handed to _openurl: its method and actionType, and what it    *)
(* carries in body (the text it uploads, the URL it fetches, the entry it  *)
(* names); the two requests of _login, lines 255-267                       *)
Request(name, body) == [req |-> name, body |-> body]
LoginRequests == <<Request("GET baseURL", <<>>),
                   Request("POST authenticateUser", <<>>)>>

SignPasswordOptions == {"", "short", "hellohello", "goodbye-bye"}
FileOptions(path) == {"", path}
HostOptions == {"", "gsa"}
UserOptions == {"", "admin"}
PasswordOptions == {"", "secret"}

(* FullDoc signed with the first signing password *)
SignedDoc == sign(FullDoc, "hellohello").self

DefaultFiles == [path \in Paths |->
                   IF path = "in.xml" THEN File(SignedDoc) ELSE NoFile]
CliFiles ==
  {[path \in Paths |-> IF path = "in.xml" THEN in ELSE out] :
     in \in {NoFile, File(FullDoc), File(SignedDoc), File(UnsignedDoc)},
     out \in {NoFile, File(FullDoc)}}

(* the parsed options, with -t, --max-hostload, --sources and --frontend   *)
(* not given                                                               *)
Options(flags, signpassword, inputFile, outputFile, host, user, password) ==
  [pc |-> "start", action |-> "", flags |-> flags,
   signpassword |-> signpassword, inputFile |-> inputFile,
   outputFile |-> outputFile, gsaHostName |-> host, gsaUsername |-> user,
   gsaPassword |-> password, timeout |-> <<>>, maxhostload |-> <<>>,
   sources |-> <<>>, frontend |-> ""]

MaxHostloadOptions == {<<>>, <<"1", "0">>, <<" ", "1", "0", " ">>,
                       <<"-", " ", "1">>, <<"1", " ", "0">>, <<" ">>,
                       <<"a", "b", "c">>}
TimeoutOptions == {<<"4">>, <<" ", "8">>, <<"-", "1">>, <<"a", "b", "c">>}
SourcesOptions == {<<>>, <<"db1">>, <<"db1", ",", "db2">>, <<"db1", ",">>}
FrontendOptions == {"", "default_frontend"}

(* every combination of the action options with the file, sign password    *)
(* and host options given; up to MaxFlags action options with every        *)
(* combination of those; at most one action option with every combination  *)
(* of those and of the files; the four actions that ask for                *)
(* --max-hostload, --sources or --frontend with every combination of       *)
(* these; and at most one action option with the -t option given           *)
CliInit ==
  /\ configXMLString = NoContents
  /\ log = <<>>
  /\ requests = <<>>
  /\ NoWeb
  /\ \/ /\ \E flags \in SUBSET ActionFlags :
             cli = Options(flags, "hellohello", "in.xml", "out.xml",
                           "gsa", "admin", "secret")
        /\ fs = DefaultFiles
     \/ /\ \E flags \in {f \in SUBSET ActionFlags : Cardinality(f) <= MaxFlags},
             g \in SignPasswordOptions, i \in FileOptions("in.xml"),
             o \in FileOptions("out.xml"), n \in HostOptions,
             u \in UserOptions, p \in PasswordOptions :
             cli = Options(flags, g, i, o, n, u, p)
        /\ fs = DefaultFiles
     \/ /\ \E flags \in {f \in SUBSET ActionFlags : Cardinality(f) <= 1},
             g \in SignPasswordOptions, i \in FileOptions("in.xml"),
             o \in FileOptions("out.xml"), n \in HostOptions,
             u \in UserOptions, p \in PasswordOptions :
             cli = Options(flags, g, i, o, n, u, p)
        /\ fs \in CliFiles
     \/ /\ \E flag \in {"setaccesscontrol", "database_sync",
                         "keymatches_export", "synonyms_export"},
             o \in FileOptions("out.xml"), m \in MaxHostloadOptions,
             s \in SourcesOptions, f \in FrontendOptions :
             cli = [Options({flag}, "hellohello", "in.xml", o,
                            "gsa", "admin", "secret")
                      EXCEPT !.maxhostload = m, !.sources = s, !.frontend = f]
        /\ fs = DefaultFiles
     \/ /\ \E flags \in {f \in SUBSET ActionFlags : Cardinality(f) <= 1},
             i \in FileOptions("in.xml"), t \in TimeoutOptions :
             cli = [Options(flags, "hellohello", i, "out.xml",
                            "gsa", "admin", "secret")
                      EXCEPT !.timeout = t, !.maxhostload = <<"1", "0">>]
        /\ fs = DefaultFiles

SysExit(code) == Call("__main__", "", "", Exit(code))

(* option parsing to the dispatch on action, lines 922-1043 *)
ParseOptions ==
  /\ cli.pc = "start"
  /\ IF Main(cli).kind \in {"exit", "raise"}
     THEN /\ log' = Append(log, Call("__main__", "", "", Main(cli)))
          /\ cli' = [cli EXCEPT !.pc = IF Main(cli).kind = "exit"
                                       THEN "exit" ELSE "crash"]
     ELSE /\ cli' = [cli EXCEPT !.pc = "branch", !.action = Main(cli).val.t]
          /\ UNCHANGED log
  /\ UNCHANGED <<configXMLString, fs, requests, gsaWI, frame>>

(* the head of the branch of the action: the process ends in its option   *)
(* checks, or goes on to read the input file (sign, import, verify) or to  *)
(* the calls on the appliance                                              *)
EnterBranch ==
  /\ cli.pc = "branch"
  /\ cli.action \in Branches
  /\ IF BranchChecks(cli, cli.action) # Pass
     THEN /\ log' = Append(log, Call("__main__", "", "",
                                     BranchChecks(cli, cli.action)))
          /\ cli' = [cli EXCEPT !.pc =
                       IF BranchChecks(cli, cli.action).kind = "exit"
                       THEN "exit" ELSE "crash"]
     ELSE /\ cli' = [cli EXCEPT !.pc = IF cli.action \in {"sign", "import", "verify"}
                                      THEN "open" ELSE "other"]
          /\ UNCHANGED log
  /\ UNCHANGED <<configXMLString, fs, requests, gsaWI, frame>>

(* gsac = gsaConfig(options.inputFile), lines 1054, 1064, 1085 *)
CliOpenFile ==
  /\ cli.pc = "open"
  /\ LET r == openFile(configXMLString, cli.inputFile, fs)
     IN /\ configXMLString' = r.self
        /\ log' = Append(log, Call("openFile", "", cli.inputFile, r.out))
        /\ cli' = [cli EXCEPT !.pc = IF r.out.kind = "exit" THEN "exit"
                                     ELSE IF cli.action = "sign" THEN "sign"
                                     ELSE "verify"]
  /\ UNCHANGED <<fs, requests, gsaWI, frame>>

(* gsac.sign(options.signpassword), line 1055, with r what sign gives *)
CliSigned(r) ==
  /\ configXMLString' = r.self
  /\ log' = Append(log, Call("sign", cli.signpassword, "", r.out))
  /\ cli' = [cli EXCEPT !.pc = IF r.out.kind = "return" THEN "write"
                               ELSE "crash"]

CliSign ==
  /\ cli.pc = "sign"
  /\ CliSigned(sign(configXMLString, cli.signpassword))
  /\ UNCHANGED <<fs, requests, gsaWI, frame>>

(* gsac.writeFile(options.outputFile), line 1057, with r what writeFile   *)
(* gives                                                                   *)
CliWritten(r) ==
  /\ fs' = r.files
  /\ log' = Append(log, Call("writeFile", "", cli.outputFile, r.out))
  /\ cli' = [cli EXCEPT !.pc = CASE r.out.kind = "return" -> "done"
                                 [] r.out.kind = "exit" -> "exit"
                                 [] OTHER -> "crash"]

CliWriteFile ==
  /\ cli.pc = "write"
  /\ CliWritten(writeFile(configXMLString, cli.outputFile, fs))
  /\ UNCHANGED <<configXMLString, requests, gsaWI, frame>>

(* the verify branch, lines 1086-1090, with r what verifySignature gives *)
CliVerified(r) ==
  /\ configXMLString' = r.self
  /\ log' = IF r.out = Return(None)
            THEN Append(Append(log, Call("verifySignature", cli.signpassword,
                                         "", r.out)),
                        SysExit("1"))
            ELSE Append(log, Call("verifySignature", cli.signpassword, "",
                                  r.out))
  /\ cli' = [cli EXCEPT !.pc = CASE r.out.kind # "return" -> "crash"
                                 [] r.out = Return(None) -> "exit"
                                 [] OTHER -> "done"]

CliVerify ==
  /\ cli.pc = "verify"
  /\ cli.action = "verify"
  /\ CliVerified(verifySignature(configXMLString, cli.signpassword))
  /\ UNCHANGED <<fs, requests, gsaWI, frame>>

(* the import branch, lines 1065-1066, with r what verifySignature gives *)
CliImportVerified(r) ==
  /\ configXMLString' = r.self
  /\ log' = Append(log, Call("verifySignature", cli.signpassword, "", r.out))
  /\ cli' = [cli EXCEPT !.pc = AfterImportVerify(r.out)]

CliImportVerify ==
  /\ cli.pc = "verify"
  /\ cli.action = "import"
  /\ CliImportVerified(verifySignature(configXMLString, cli.signpassword))
  /\ UNCHANGED <<fs, requests, gsaWI, frame>>

(***************************************************************************)
(* gsaWebInterface.  gsaWI holds the attributes of the one instance of the *)
(* process, frame the method that runs on it: its name op, its position pc *)
(* and its local variables.  Every request handed to _openurl is appended  *)
(* to requests, whether the appliance answers it or not.  An exception     *)
(* that leaves an admin operation ends the process: nothing in the script  *)
(* catches it.                                                             *)
(***************************************************************************)
PyTrue == Tok("bool", "True", <<>>)
PyFalse == Tok("bool", "False", <<>>)

(* an attribute that was never assigned: is72 before the first login *)
NoAttribute == Tok("attr", "", <<>>)

(* not v, for the values loggedIn takes *)
Not(v) == v \in {None, PyFalse}

(* gsaWebInterface(hostName, username, password), lines 203-217: loggedIn  *)
(* is the class attribute None, no request is sent                         *)
gsaWebInterface == [made |-> TRUE, loggedIn |-> None, is72 |-> NoAttribute]

(* what the appliance does with the two requests of _login: the pre-7.2    *)
(* home page; the 7.2 JSON answer; an answer that matches the 7.2 pattern  *)
(* of line 272 and does not parse as JSON, parses as a list, holds "xsrf"  *)
(* in a nested member only, or holds a top level "xsrf" list of fewer than *)
(* three members beside the nested one; any other page; no answer to the   *)
(* initial page; no answer to authenticateUser                             *)
LoginResponses == {"home", "home72", "home72_junk", "home72_list",
                   "home72_nested", "home72_short", "other", "no_page",
                   "no_answer"}

(* json.loads(resultString[5:]) and response["xsrf"][2], lines 280-281, on *)
(* an answer that matches the 7.2 pattern                                  *)
Xsrf(response) ==
  CASE response = "home72_junk" -> Raise("ValueError")
    [] response = "home72_list" -> Raise("TypeError")
    [] response = "home72_nested" -> Raise("KeyError")
    [] response = "home72_short" -> Raise("IndexError")
    [] OTHER -> Return(Tok("str", "T", <<>>))

(* a _login that authenticates whether or not loggedIn is set *)
_login_Always(self, response) ==
  CASE response = "no_page" ->
         [out |-> Raise("URLError"), self |-> self,
          sent |-> <<Request("GET baseURL", <<>>)>>]
    [] response = "no_answer" ->
         [out |-> Raise("URLError"), self |-> self, sent |-> LoginRequests]
    [] response = "home" ->
         [out |-> Return(None),
          self |-> [self EXCEPT !.is72 = PyFalse, !.loggedIn = PyTrue],
          sent |-> LoginRequests]
    [] response = "home72" ->
         [out |-> Return(None),
          self |-> [self EXCEPT !.is72 = PyTrue, !.loggedIn = PyTrue],
          sent |-> LoginRequests]
    [] Xsrf(response).kind = "raise" ->
         [out |-> Xsrf(response), self |-> self, sent |-> LoginRequests]
    [] OTHER ->
         [out |-> Exit("2"), self |-> self, sent |-> LoginRequests]

(* _login, lines 252-288: the outcome, the instance afterwards and the     *)
(* requests sent                                                           *)
_login(self, response) ==
  IF ~Not(self.loggedIn)
  THEN [out |-> Return(None), self |-> self, sent |-> <<>>]
  ELSE CASE response = "no_page" ->
              [out |-> Raise("URLError"), self |-> self,
               sent |-> <<Request("GET baseURL", <<>>)>>]
         [] response = "no_answer" ->
              [out |-> Raise("URLError"), self |-> self,
               sent |-> LoginRequests]
         [] response = "home" ->
              [out |-> Return(None),
               self |-> [self EXCEPT !.is72 = PyFalse, !.loggedIn = PyTrue],
               sent |-> LoginRequests]
         [] response = "home72" ->
              [out |-> Return(None),
               self |-> [self EXCEPT !.is72 = PyTrue, !.loggedIn = PyTrue],
               sent |-> LoginRequests]
         [] Xsrf(response).kind = "raise" ->
              [out |-> Xsrf(response), self |-> self, sent |-> LoginRequests]
         [] OTHER ->
              [out |-> Exit("2"), self |-> self, sent |-> LoginRequests]

(* _logout, lines 290-293 *)
LogoutRequest == Request("GET actionType=logout", <<>>)
_logout(self, response) ==
  IF response = "no_answer"
  THEN [out |-> Raise("URLError"), self |-> self, sent |-> <<LogoutRequest>>]
  ELSE [out |-> Return(None), self |-> [self EXCEPT !.loggedIn = PyFalse],
        sent |-> <<LogoutRequest>>]

(* the form page getSecurityToken fetches, by actionType *)
TokenRequest(actionType) ==
  CASE actionType = "cache" -> Request("GET actionType=cache", <<>>)
    [] actionType = "exportAllUrls" ->
         Request("GET actionType=exportAllUrls", <<>>)
    [] OTHER -> Request("GET actionType=viewFrontends", <<>>)

(* the page holds a security_token field, holds none, or does not arrive *)
TokenResponses == {"form", "no_token", "no_answer"}
Str(s) == Tok("str", s, <<>>)

(* getSecurityToken, lines 377-400 *)
getSecurityToken(self, actionType, login, response) ==
  IF _login(self, login).out.kind # "return"
  THEN _login(self, login)
  ELSE [out |-> CASE response = "form" -> Return(Str("token"))
                  [] response = "no_token" -> Return(Str(""))
                  [] OTHER -> Raise("URLError"),
        self |-> _login(self, login).self,
        sent |-> Append(_login(self, login).sent, TokenRequest(actionType))]

(* the admin operations, the form getSecurityToken is called with ("" if   *)
(* the operation does not call it) and the first request of the operation  *)
AdminOps == {"importConfig", "exportConfig", "setAccessControl",
             "syncDatabases", "exportAllUrls", "exportKeymatches",
             "exportSynonyms", "getAllUrls", "getStatus", "getCollection",
             "runCusSscript"}

TokenOf(op) ==
  CASE op \in {"importConfig", "exportConfig", "setAccessControl",
               "runCusSscript"} -> "cache"
    [] op = "exportAllUrls" -> "exportAllUrls"
    [] op \in {"exportKeymatches", "exportSynonyms"} -> "viewFrontends"
    [] OTHER -> ""

(* exportKeymatches and exportSynonyms send a POST to a 7.2 appliance and  *)
(* a GET to an older one, lines 546-549 and 573-576                        *)
ActionRequest(op, self) ==
  CASE op = "importConfig" -> Request("POST importExport", <<>>)
    [] op = "exportConfig" -> Request("GET importExport", <<>>)
    [] op = "setAccessControl" -> Request("POST cache", <<>>)
    [] op = "syncDatabases" -> Request("GET syncDatabase", <<>>)
    [] op = "exportAllUrls" -> Request("POST exportAllUrls", <<>>)
    [] op = "exportKeymatches" ->
         Request(IF self.is72 = PyTrue THEN "POST frontKeymatchImport"
                 ELSE "GET frontKeymatchImport", <<>>)
    [] op = "exportSynonyms" ->
         Request(IF self.is72 = PyTrue THEN "POST frontSynonymsImport"
                 ELSE "GET frontSynonymsImport", <<>>)
    [] op = "getAllUrls" -> Request("GET contentDiagnostics", <<>>)
    [] op = "getStatus" -> Request("GET gsanDiagnostics", <<>>)
    [] op = "getCollection" -> Request("GET contentDiagnostics", <<>>)
    [] OTHER -> Request("POST supportScripts", <<>>)

(* the pages the appliance answers a request with: the page the operation  *)
(* hopes for ("ok"); the error page the operation looks for ("refused");   *)
(* a status page with a node row and fewer than five statuses, or a        *)
(* collection page with fewer successful or error counts than collections  *)
(* ("short"); a collection page whose counts are not numbers               *)
(* ("no_number"); the status page of a 7.2 appliance, with "nd-ue-re" and  *)
(* without node rows ("status72"); or no answer ("no_answer").  Only "ok"  *)
(* has "Configuration imported successfully", only "ok" and "short" have   *)
(* node rows, only "short" and "no_number" have collections                *)
Answers == {"ok", "refused", "short", "no_number", "status72", "no_answer"}

(* how an operation with one request (importConfig, exportConfig,          *)
(* setAccessControl, exportKeymatches, exportSynonyms, getStatus,          *)
(* getCollection) on the instance self ends on the answer to that request; *)
(* exportConfig returns the gsaConfig it made, the two exports log a       *)
(* request that fails and return                                           *)
AdminOutcome(op, self, answer) ==
  CASE op \in {"exportKeymatches", "exportSynonyms"} -> Return(None)
    [] answer = "no_answer" -> Raise("URLError")
    [] op = "importConfig" ->
         IF answer = "ok" THEN Return(None) ELSE Exit("2")
    [] op = "exportConfig" ->
         IF answer = "refused" THEN Exit("2")
         ELSE Return(Tok("gsaConfig", "", <<>>))
    [] op = "setAccessControl" -> Return(None)
    [] op = "getStatus" ->
         IF answer = "status72" /\ self.is72 = PyTrue THEN Return(None)
         ELSE IF answer = "ok" THEN Return(None)
         ELSE IF answer = "short" THEN Raise("IndexError")
         ELSE Exit("3")
    [] op = "getCollection" ->
         IF answer = "short" THEN Raise("IndexError")
         ELSE IF answer = "no_number" THEN Raise("ValueError")
         ELSE Return(None)

(* where the process is after an operation of the instance ended with out *)
Ended(out) ==
  CASE out.kind = "exit" -> "exit"
    [] out.kind = "raise" -> "crash"
    [] OTHER -> "idle"

(* the calls on the instance that are over: admin operations and _logout   *)
MaxOps == 3
Over ==
  Cardinality({i \in 1..Len(log) : log[i].op \in AdminOps \cup {"_logout"}})

(* the log with the exchange of a _login that sent requests *)
LoggedLogin(r, response) ==
  IF r.sent = <<>> THEN log
  ELSE Append(log, Call("_login", "", response, r.out))

(* the method that runs ends with out *)
OpEnd(out) ==
  /\ log' = Append(log, Call(frame.op, "", "", out))
  /\ frame' = [frame EXCEPT !.pc = IF out.kind = "return" THEN "done"
                                   ELSE Ended(out)]

(* the self._login() at the head of a method other than getAllUrls;       *)
(* importConfig evaluates gsaConfig.getXMLContents() before it, line 302   *)
OpLogin(response) ==
  /\ frame.pc = "login"
  /\ frame.op # "getAllUrls"
  /\ cli.pc \in {"none", "call"}
  /\ IF frame.op = "importConfig"
          /\ getXMLContents(configXMLString).kind = "raise"
     THEN /\ OpEnd(getXMLContents(configXMLString))
          /\ UNCHANGED <<requests, gsaWI>>
     ELSE /\ gsaWI' = _login(gsaWI, response).self
          /\ requests' = requests \o _login(gsaWI, response).sent
          /\ log' = LoggedLogin(_login(gsaWI, response), response)
          /\ frame' = [frame EXCEPT !.pc =
                         IF _login(gsaWI, response).out.kind # "return"
                         THEN Ended(_login(gsaWI, response).out)
                         ELSE IF TokenOf(frame.op) # "" THEN "token"
                         ELSE "action"]
  /\ UNCHANGED <<configXMLString, fs, cli>>

(* security_token = self.getSecurityToken(...) of the operation *)
AdminToken(login, response) ==
  /\ frame.pc = "token"
  /\ gsaWI' = getSecurityToken(gsaWI, TokenOf(frame.op), login, response).self
  /\ requests' = requests
        \o getSecurityToken(gsaWI, TokenOf(frame.op), login, response).sent
  /\ log' = IF getSecurityToken(gsaWI, TokenOf(frame.op), login,
                                response).out.kind = "return"
            THEN log
            ELSE Append(log, Call(frame.op, "", "",
                   getSecurityToken(gsaWI, TokenOf(frame.op), login,
                                    response).out))
  /\ frame' = [frame EXCEPT !.pc =
                 IF getSecurityToken(gsaWI, TokenOf(frame.op), login,
                                     response).out.kind = "return"
                 THEN "action"
                 ELSE Ended(getSecurityToken(gsaWI, TokenOf(frame.op), login,
                                             response).out)]
  /\ UNCHANGED <<configXMLString, fs, cli>>

(***************************************************************************)
(* runCusSscript, lines 748-816, called on a new instance with the script  *)
(* file "in.xml", the output file "out.xml" the script opened for writing  *)
(* and a timeout: the default, or the integer given with -t.  frame holds  *)
(* timeout and the local tm; every answer to a status poll is appended to  *)
(* log as a call of _openurl.                                              *)
(***************************************************************************)
MaxTimeout == 9
DefaultTimeout == 180
sleeptime == 4
Timeouts == ((0 - MaxTimeout)..MaxTimeout) \cup {DefaultTimeout}

StatusRequest == Request("GET supportScripts", <<>>)
DownloadRequest == Request("POST supportScripts download", <<>>)

PollInit ==
  /\ configXMLString = NoContents
  /\ log = <<>>
  /\ fs \in {[path \in Paths |-> IF path = "in.xml" THEN in ELSE File(<<>>)] :
               in \in {NoFile, File(<<Chr("script")>>)}}
  /\ cli = NoCli
  /\ requests = <<>>
  /\ gsaWI = gsaWebInterface
  /\ \E timeout \in Timeouts :
        frame = [op |-> "runCusSscript", pc |-> "start",
                 sscript_file |-> "in.xml", out_fd |-> "out.xml",
                 timeout |-> timeout, tm |-> 0]

(* lines 756-761: the script file is read *)
CusReadFile ==
  /\ frame.pc = "start"
  /\ IF ~fs[frame.sscript_file].exists
     THEN OpEnd(Exit("1"))
     ELSE /\ frame' = [frame EXCEPT !.pc = "login"]
          /\ UNCHANGED log
  /\ UNCHANGED <<configXMLString, fs, cli, requests, gsaWI>>

(* lines 765-779: the script is submitted; tm = 0 at line 784 *)
CusSubmit(answer) ==
  /\ frame.pc = "action"
  /\ frame.op = "runCusSscript"
  /\ requests' = Append(requests,
                        [ActionRequest(frame.op, gsaWI)
                           EXCEPT !.body = fs[frame.sscript_file].text])
  /\ CASE answer = "no_answer" -> OpEnd(Raise("URLError"))
       [] answer = "refused" -> OpEnd(Exit("2"))
       [] OTHER -> /\ frame' = [frame EXCEPT !.pc = "poll", !.tm = 0]
                   /\ UNCHANGED log
  /\ UNCHANGED <<configXMLString, fs, cli, gsaWI>>

(* a loop body that tests the wait before it adds to it *)
PollBody_TestFirst(tm, timeout, answer) ==
  CASE answer = "no_answer" ->
         [pc |-> "crash", tm |-> tm, out |-> Raise("URLError")]
    [] answer = "ready" -> [pc |-> "download", tm |-> tm, out |-> Return(None)]
    [] tm > timeout -> [pc |-> "exit", tm |-> tm, out |-> Exit("1")]
    [] OTHER -> [pc |-> "poll", tm |-> tm + sleeptime, out |-> Return(None)]

(* one pass of the loop, lines 786-799: where it goes, tm afterwards and   *)
(* how the pass ends                                                       *)
PollBody(tm, timeout, answer) ==
  CASE answer = "no_answer" ->
         [pc |-> "crash", tm |-> tm, out |-> Raise("URLError")]
    [] answer = "ready" -> [pc |-> "download", tm |-> tm, out |-> Return(None)]
    [] tm + sleeptime > timeout ->
         [pc |-> "exit", tm |-> tm + sleeptime, out |-> Exit("1")]
    [] OTHER -> [pc |-> "poll", tm |-> tm + sleeptime, out |-> Return(None)]

(* one status poll *)
Poll(answer) ==
  /\ frame.pc = "poll"
  /\ requests' = Append(requests, StatusRequest)
  /\ frame' = [frame EXCEPT !.pc = PollBody(frame.tm, frame.timeout, answer).pc,
                            !.tm = PollBody(frame.tm, frame.timeout, answer).tm]
  /\ log' = IF PollBody(frame.tm, frame.timeout, answer).out.kind = "return"
            THEN Append(log, Call("_openurl", "", answer, Return(None)))
            ELSE Append(Append(log, Call("_openurl", "", answer,
                     IF answer = "no_answer" THEN Raise("URLError")
                     ELSE Return(None))),
                   Call("runCusSscript", "", "",
                        PollBody(frame.tm, frame.timeout, answer).out))
  /\ UNCHANGED <<configXMLString, fs, cli, gsaWI>>

(* lines 801-816: the results are downloaded and written to out_fd *)
Download(answer) ==
  /\ frame.pc = "download"
  /\ requests' = Append(requests, DownloadRequest)
  /\ OpEnd(CASE answer = "no_answer" -> Raise("URLError")
              [] answer \in {"unable", "error"} -> Exit("1")
              [] OTHER -> Return(None))
  /\ fs' = IF answer = "results"
           THEN [fs EXCEPT ![frame.out_fd] =
                   File(fs[frame.out_fd].text \o <<Chr("results")>>)]
           ELSE fs
  /\ UNCHANGED <<configXMLString, cli, gsaWI>>

PollNext ==
  \/ CusReadFile
  \/ \E response \in LoginResponses : OpLogin(response)
  \/ \E login \in LoginResponses, response \in TokenResponses :
        AdminToken(login, response)
  \/ \E answer \in Answers : CusSubmit(answer)
  \/ \E answer \in {"running", "ready", "no_answer"} : Poll(answer)
  \/ \E answer \in {"results", "unable", "error", "no_answer"} :
        Download(answer)

(* the method runs on: every request is answered or fails, every sleep     *)
(* returns                                                                 *)
PollSpec == PollInit /\ [][PollNext]_vars /\ WF_vars(PollNext)

(***************************************************************************)
(* The branches of the script that call the appliance, lines 1064-1215:    *)
(* the output file is opened for writing where the action has one, the     *)
(* gsaWebInterface instance is made and its method is called; cli.pc is    *)
(* "call" while the method runs ("crawl" for getAllUrls).  When the        *)
(* process is over the instance is deleted.  The appliance is not fixed    *)
(* beforehand: the answer to a request is chosen when it is sent.          *)
(***************************************************************************)
MaxGenerating == 1

(* the method of gsaWebInterface the branch of the action calls *)
OpOf(action) ==
  CASE action = "import" -> "importConfig"
    [] action = "export" -> "exportConfig"
    [] action = "setaccesscontrol" -> "setAccessControl"
    [] action = "all_urls" -> "getAllUrls"
    [] action = "export_all_urls" -> "exportAllUrls"
    [] action = "database_sync" -> "syncDatabases"
    [] action = "keymatches_export" -> "exportKeymatches"
    [] action = "synonyms_export" -> "exportSynonyms"
    [] action = "status" -> "getStatus"
    [] action = "getcollection" -> "getCollection"
    [] OTHER -> "runCusSscript"

(* options.sources.split(","), line 1147, with word the name read so far *)
RECURSIVE SplitFrom(_, _)
SplitFrom(s, word) ==
  IF s = <<>> THEN <<word>>
  ELSE IF Head(s) = "," THEN <<word>> \o SplitFrom(Tail(s), "")
  ELSE SplitFrom(Tail(s), word \o Head(s))

(* the method at its first statement, with the arguments the branch gives  *)
(* it; runCusSscript is called with the timeout of -t if that was given    *)
StartFrame(options) ==
  CASE options.action = "cus_sscript" ->
         [op |-> "runCusSscript", pc |-> "start",
          sscript_file |-> options.inputFile, out_fd |-> options.outputFile,
          timeout |-> IF options.timeout = <<>> THEN DefaultTimeout
                      ELSE IntOf(options.timeout),
          tm |-> 0]
    [] options.action = "all_urls" ->
         [op |-> "getAllUrls", pc |-> "login", out |-> options.outputFile,
          tocrawl |-> {}, crawled |-> {}, doc_urls |-> {},
          crawling |-> <<>>, links |-> <<>>]
    [] options.action = "database_sync" ->
         [op |-> "syncDatabases", pc |-> "login",
          database_list |-> SplitFrom(options.sources, "")]
    [] options.action = "export_all_urls" ->
         [op |-> "exportAllUrls", pc |-> "login",
          out |-> options.outputFile, generating |-> 0]
    [] options.action \in {"keymatches_export", "synonyms_export"} ->
         [op |-> OpOf(options.action), pc |-> "login",
          out |-> options.outputFile]
    [] OTHER -> [op |-> OpOf(options.action), pc |-> "login"]

(* lines 1067, 1076, 1103-1106, 1149, 1189 and 1196: the instance is made  *)
(* and the method of the action is called                                  *)
CliCall ==
  /\ cli.pc = IF cli.action = "import" THEN "import" ELSE "other"
  /\ cli.action \in {"import", "export", "setaccesscontrol", "database_sync",
                     "status", "getcollection"}
  /\ gsaWI' = gsaWebInterface
  /\ frame' = StartFrame(cli)
  /\ cli' = [cli EXCEPT !.pc = "call"]
  /\ UNCHANGED <<configXMLString, log, fs, requests>>

(* lines 1116-1124, 1132-1139, 1160-1167, 1178-1185 and 1205-1211: the     *)
(* output file is opened for writing, which empties it, or cannot be       *)
(* opened; then the instance is made and the method is called              *)
CliOpenOutput(ioerror) ==
  /\ cli.pc = "other"
  /\ cli.action \in {"all_urls", "export_all_urls", "keymatches_export",
                     "synonyms_export", "cus_sscript"}
  /\ IF ioerror
     THEN /\ log' = Append(log, SysExit("3"))
          /\ cli' = [cli EXCEPT !.pc = "exit"]
          /\ UNCHANGED <<fs, gsaWI, frame>>
     ELSE /\ fs' = [fs EXCEPT ![cli.outputFile] = File(<<>>)]
          /\ cli' = [cli EXCEPT !.pc = IF cli.action = "all_urls"
                                       THEN "crawl" ELSE "call"]
          /\ gsaWI' = gsaWebInterface
          /\ frame' = StartFrame(cli)
          /\ UNCHANGED log
  /\ UNCHANGED <<configXMLString, requests>>

(* the configuration the appliance answers an export with: a signed        *)
(* document, or a page that is not one                                     *)
Exported(answer) == IF answer = "ok" THEN SignedDoc ELSE Malformed

(* importConfig, exportConfig, setAccessControl, exportKeymatches,         *)
(* exportSynonyms, getStatus and getCollection after their login and       *)
(* security token: the one request and the end of the method.  The upload  *)
(* carries the contents of the gsaConfig, exportConfig stores the answer   *)
(* in a new gsaConfig, the two exports write the answer to out             *)
OpRequest(answer) ==
  /\ frame.pc = "action"
  /\ cli.pc \in {"none", "call"}
  /\ frame.op \in {"importConfig", "exportConfig", "setAccessControl",
                   "exportKeymatches", "exportSynonyms", "getStatus",
                   "getCollection"}
  /\ requests' = Append(requests,
                        [ActionRequest(frame.op, gsaWI) EXCEPT !.body =
                           IF frame.op = "importConfig"
                           THEN getXMLContents(configXMLString).val
                           ELSE <<>>])
  /\ configXMLString' =
       IF frame.op = "exportConfig"
            /\ AdminOutcome(frame.op, gsaWI, answer).kind = "return"
       THEN setXMLContents(Exported(answer))
       ELSE configXMLString
  /\ fs' = IF frame.op \in {"exportKeymatches", "exportSynonyms"}
                /\ answer # "no_answer"
           THEN [fs EXCEPT ![frame.out] =
                   File(fs[frame.out].text \o <<Chr(answer)>>)]
           ELSE fs
  /\ OpEnd(AdminOutcome(frame.op, gsaWI, answer))
  /\ UNCHANGED <<cli, gsaWI>>

(* syncDatabases, lines 448-455: one pass of the loop, the request for the *)
(* next database, whose failure is logged only                             *)
SyncDatabase ==
  /\ frame.pc = "action"
  /\ frame.op = "syncDatabases"
  /\ requests' = Append(requests,
                        [ActionRequest(frame.op, gsaWI) EXCEPT !.body =
                           <<Chr(Head(frame.database_list))>>])
  /\ frame' = [frame EXCEPT !.database_list = Tail(frame.database_list),
                            !.pc = IF Tail(frame.database_list) = <<>>
                                   THEN "done" ELSE "action"]
  /\ log' = IF Tail(frame.database_list) = <<>>
            THEN Append(log, Call(frame.op, "", "", Return(None)))
            ELSE log
  /\ UNCHANGED <<configXMLString, fs, cli, gsaWI>>

GeneratingRequest == Request("POST exportAllUrls status", <<>>)
DownloadListRequest == Request("POST exportAllUrls download", <<>>)

(* exportAllUrls, lines 464-490: the request that generates the list; its  *)
(* failure is logged only                                                  *)
Generate ==
  /\ frame.pc = "action"
  /\ frame.op = "exportAllUrls"
  /\ requests' = Append(requests, ActionRequest(frame.op, gsaWI))
  /\ frame' = [frame EXCEPT !.pc = "generating"]
  /\ UNCHANGED <<configXMLString, log, fs, cli, gsaWI>>

(* one pass of the loop of lines 492-510: the page says that the list is   *)
(* still generated, or does not, or does not arrive                        *)
GeneratePoll(answer) ==
  /\ frame.pc = "generating"
  /\ answer = "generating" => frame.generating < MaxGenerating
  /\ requests' = Append(requests, GeneratingRequest)
  /\ CASE answer = "no_answer" -> OpEnd(Raise("URLError"))
       [] answer = "generating" ->
            /\ frame' = [frame EXCEPT !.generating = frame.generating + 1]
            /\ UNCHANGED log
       [] OTHER -> /\ frame' = [frame EXCEPT !.pc = "download_list"]
                   /\ UNCHANGED log
  /\ UNCHANGED <<configXMLString, fs, cli, gsaWI>>

(* lines 512-528: the list is downloaded and written to out; a failure is  *)
(* logged only                                                             *)
DownloadList(answer) ==
  /\ frame.pc = "download_list"
  /\ requests' = Append(requests, DownloadListRequest)
  /\ fs' = IF answer = "no_answer" THEN fs
           ELSE [fs EXCEPT ![frame.out] =
                   File(fs[frame.out].text \o <<Chr(answer)>>)]
  /\ OpEnd(Return(None))
  /\ UNCHANGED <<configXMLString, cli, gsaWI>>

(* the method called at cli.pc "call" is over: the export branch goes on   *)
(* to gsac.writeFile, line 1078, every other branch ends with the method   *)
CliAfterCall ==
  /\ cli.pc = "call"
  /\ frame.pc \in {"done", "exit", "crash"}
  /\ cli' = [cli EXCEPT !.pc = IF frame.pc = "done" /\ cli.action = "export"
                               THEN "write" ELSE frame.pc]
  /\ UNCHANGED <<configXMLString, log, fs, requests, gsaWI, frame>>

(* __del__, lines 295-296, of the instance the script made, when the       *)
(* process ends: _logout, an exception of which is ignored                 *)
CliDel(response) ==
  /\ cli.pc \in {"done", "exit", "crash"}
  /\ gsaWI.made
  /\ frame.pc # "gone"
  /\ gsaWI' = _logout(gsaWI, response).self
  /\ requests' = requests \o _logout(gsaWI, response).sent
  /\ frame' = [frame EXCEPT !.pc = "gone"]
  /\ UNCHANGED <<configXMLString, log, fs, cli>>

(***************************************************************************)
(* The all_urls action and getAllUrls, lines 1112-1126 and 579-652.  A URL *)
(* or a link is the sequence of its pieces (scheme, "://", host, path,     *)
(* "?", parameters and their separators); a substring the code looks for   *)
(* is one piece.  The pages of the appliance are not fixed beforehand: the *)
(* links of a page are chosen when it is fetched.                          *)
(***************************************************************************)
MaxLinks == 2

(* self.baseURL, line 211, and the URL the crawl starts from, line 598 *)
baseURL == <<"http", "://", "gsa:8000", "/EnterpriseController">>
StartURL == baseURL \o <<"?", "actionType=contentDiagnostics", "&",
                         "sort=crawled">>

(* the href values found on the pages *)
DirLink(amp, uriAt, variant) ==
  <<"/EnterpriseController", "?", "actionType=contentDiagnostics", amp,
    uriAt, amp, variant>>
DocLink(amp, uriAt) ==
  <<"/EnterpriseController", "?", "actionType=contentStatus", amp, uriAt>>
Hrefs ==
  { <<"/EnterpriseController", "?", "actionType=contentDiagnostics", "&amp;",
      "sort=crawled">>,
    DirLink("&amp;", "uriAt=http%3A%2F%2Fa%2F", "sort=crawled"),
    DirLink("&", "uriAt=http%3A%2F%2Fa%2F", "sort=crawled"),
    DirLink("&", "uriAt=http%3A%2F%2Fa%2Fx", "sort=crawled"),
    DirLink("&amp;", "uriAt=http%3A%2F%2Fa%2F", "view=errors"),
    DirLink("&amp;", "uriAt=http%3A%2F%2Fa%2F", "sort=excluded"),
    DocLink("&amp;", "uriAt=http%3A%2F%2Fa%2Fx"),
    DocLink("&", "uriAt=http%3a%2f%2fa%2fx"),
    DocLink("&amp;", "uriAt=http%3A%2F%2Fa%2Fy"),
    <<"/EnterpriseController", "?", "actionType=contentStatus">>,
    <<"http", "://", "other.example", "/EnterpriseController", "?",
      "actionType=contentDiagnostics", "&", "sort=crawled">>,
    <<"/help.html">> }

(* href_regex.findall(content): up to MaxLinks links in page order *)
LinkLists == UNION {[1..n -> Hrefs] : n \in 0..MaxLinks}

(* link.startswith('/') *)
StartsWithSlash(link) ==
  IF link = <<>> THEN FALSE
  ELSE link[1] \in {"/EnterpriseController", "/help.html"}

(* s.find(sub) != -1 *)
Find(s, sub) == \E i \in 1..Len(s) : s[i] = sub

(* _unescape, lines 441-443: s.replace('&amp;', '&') *)
_unescape(s) == [i \in 1..Len(s) |-> IF s[i] = "&amp;" THEN "&" ELSE s[i]]

(* urlparse.urlparse(crawling): the scheme url[0] and the host url[1] *)
urlparse(crawling) == <<crawling[1], crawling[3]>>

(* lines 623-625: the link made absolute and unescaped *)
Absolute(link, crawling) ==
  _unescape(<<urlparse(crawling)[1], "://", urlparse(crawling)[2]>> \o link)

(* a test that follows every crawl diagnostics link *)
Follows_AllDiagnostics(link) == Find(link, "actionType=contentDiagnostics")

(* the test of lines 628-633 *)
Follows(link) ==
  /\ Find(link, "actionType=contentDiagnostics")
  /\ ~Find(link, "sort=excluded")
  /\ ~Find(link, "sort=errors")
  /\ ~Find(link, "view=excluded")
  /\ ~Find(link, "view=successful")
  /\ ~Find(link, "view=errors")

(* the value of a uriAt parameter as cgi.parse_qs gives it, "" for any     *)
(* other piece                                                             *)
UriAt(piece) ==
  CASE piece = "uriAt=http%3A%2F%2Fa%2F" -> "http://a/"
    [] piece = "uriAt=http%3A%2F%2Fa%2Fx" -> "http://a/x"
    [] piece = "uriAt=http%3a%2f%2fa%2fx" -> "http://a/x"
    [] piece = "uriAt=http%3A%2F%2Fa%2Fy" -> "http://a/y"
    [] OTHER -> ""

(* cgi.parse_qs(urlparse.urlsplit(link)[3])['uriAt'], with the query       *)
(* everything behind the first "?"                                         *)
RECURSIVE UriAtValues(_)
UriAtValues(query) ==
  IF query = <<>> THEN <<>>
  ELSE IF UriAt(Head(query)) # ""
       THEN <<UriAt(Head(query))>> \o UriAtValues(Tail(query))
       ELSE UriAtValues(Tail(query))
Query(link) ==
  IF First(link, "?") = 0 THEN <<>>
  ELSE SubSeq(link, First(link, "?") + 1, Len(link))

(* line 639, ''.join(...) of the values: the document URL *)
DocUrl(link) == UriAtValues(Query(link))

(* out.write(doc_url + '\n') *)
Line(doc_url) == [i \in 1..Len(doc_url) |-> Chr(doc_url[i])] \o <<NL>>

(* the body of the for loop, lines 621-652, for one link that is already   *)
(* absolute: the sets afterwards, what is written to out, and the outcome  *)
Step(tocrawl, doc_urls, written, out) ==
  [tocrawl |-> tocrawl, doc_urls |-> doc_urls, written |-> written,
   out |-> out]
ForBody(link, tocrawl, crawled, doc_urls) ==
  IF link \in crawled THEN Step(tocrawl, doc_urls, <<>>, Return(None))
  ELSE IF Follows(link)
  THEN Step(tocrawl \cup {link}, doc_urls, <<>>, Return(None))
  ELSE IF ~Find(link, "actionType=contentStatus")
  THEN Step(tocrawl, doc_urls, <<>>, Return(None))
  ELSE IF DocUrl(link) = <<>>
  THEN Step(tocrawl, doc_urls, <<>>, Raise("KeyError"))
  ELSE IF DocUrl(link) \in doc_urls
  THEN Step(tocrawl, doc_urls, <<>>, Return(None))
  ELSE Step(tocrawl, doc_urls \cup {DocUrl(link)}, Line(DocUrl(link)),
            Return(None))

(* lines 1125-1126 after getAllUrls(f): f.close() and the closing log line *)
(* are reached only if the call returned                                   *)
AfterGetAllUrls(out) ==
  IF out.kind = "return" THEN "done" ELSE Ended(out)

CrawlInit ==
  /\ configXMLString = NoContents
  /\ log = <<>>
  /\ requests = <<>>
  /\ NoWeb
  /\ \E o \in FileOptions("out.xml") :
        cli = Options({"all_urls"}, "", "", o, "gsa", "admin", "secret")
  /\ fs \in {[path \in Paths |-> IF path = "out.xml" THEN out ELSE NoFile] :
               out \in {NoFile, File(<<Chr("old"), NL>>)}}

(* the script after getAllUrls ended with out, if the script called it *)
CrawlCaller(out) ==
  IF cli.pc = "none" THEN cli ELSE [cli EXCEPT !.pc = AfterGetAllUrls(out)]

(* getAllUrls ends with out *)
CrawlEnd(out) ==
  /\ log' = Append(log, Call("getAllUrls", "", "", out))
  /\ cli' = CrawlCaller(out)

(* lines 596-600 *)
CrawlLogin(response) ==
  /\ cli.pc \in {"none", "crawl"}
  /\ frame.pc = "login"
  /\ frame.op = "getAllUrls"
  /\ gsaWI' = _login(gsaWI, response).self
  /\ requests' = requests \o _login(gsaWI, response).sent
  /\ IF _login(gsaWI, response).out.kind = "return"
     THEN /\ frame' = [frame EXCEPT !.pc = "pop", !.tocrawl = {StartURL}]
          /\ log' = LoggedLogin(_login(gsaWI, response), response)
          /\ UNCHANGED cli
     ELSE /\ frame' = [frame EXCEPT !.pc = "over"]
          /\ log' = LoggedLogin(_login(gsaWI, response), response)
          /\ cli' = CrawlCaller(_login(gsaWI, response).out)
  /\ UNCHANGED <<configXMLString, fs>>

(* what result.read() of line 616 raises when the answer breaks off; the   *)
(* call is outside the try of lines 612-615                                *)
ReadErrors == {"socket.error", "IncompleteRead"}

(* the answers to the request of line 613: a page that is read, no answer, *)
(* or an answer whose reading fails                                        *)
FetchAnswers == {"page", "no_answer"} \cup ReadErrors

(* lines 603-620: tocrawl.pop() gives crawling; the page is fetched and    *)
(* read, or the fetch fails and the loop goes on, or the reading fails and *)
(* the exception leaves getAllUrls                                         *)
FetchUrl(crawling, answer, links) ==
  /\ requests' = Append(requests, Request("GET", crawling))
  /\ IF answer \in ReadErrors
     THEN /\ frame' = [frame EXCEPT !.tocrawl = frame.tocrawl \ {crawling},
                                    !.crawling = crawling,
                                    !.pc = "over"]
          /\ CrawlEnd(Raise(answer))
     ELSE /\ frame' =
               IF answer = "page"
               THEN [frame EXCEPT !.tocrawl = frame.tocrawl \ {crawling},
                                  !.crawled = frame.crawled \cup {crawling},
                                  !.crawling = crawling,
                                  !.links = links,
                                  !.pc = IF links = <<>> THEN "pop"
                                         ELSE "links"]
               ELSE [frame EXCEPT !.tocrawl = frame.tocrawl \ {crawling},
                                  !.crawling = crawling]
          /\ UNCHANGED <<log, cli>>
  /\ UNCHANGED <<configXMLString, fs, gsaWI>>

Fetch(answer, links) ==
  /\ cli.pc \in {"none", "crawl"}
  /\ frame.pc = "pop"
  /\ \E crawling \in frame.tocrawl : FetchUrl(crawling, answer, links)

(* one pass of the for loop, lines 621-652 *)
Link ==
  /\ cli.pc \in {"none", "crawl"}
  /\ frame.pc = "links"
  /\ IF ~StartsWithSlash(Head(frame.links))
     THEN /\ frame' = [frame EXCEPT !.links = Tail(frame.links),
                         !.pc = IF Tail(frame.links) = <<>> THEN "pop"
                                ELSE "links"]
          /\ UNCHANGED <<log, fs, cli>>
     ELSE IF ForBody(Absolute(Head(frame.links), frame.crawling),
                     frame.tocrawl, frame.crawled,
                     frame.doc_urls).out.kind # "return"
     THEN /\ frame' = [frame EXCEPT !.pc = "over"]
          /\ CrawlEnd(ForBody(Absolute(Head(frame.links), frame.crawling),
                              frame.tocrawl, frame.crawled,
                              frame.doc_urls).out)
          /\ UNCHANGED fs
     ELSE /\ frame' = [frame EXCEPT
                         !.tocrawl =
                            ForBody(Absolute(Head(frame.links), frame.crawling),
                                    frame.tocrawl, frame.crawled,
                                    frame.doc_urls).tocrawl,
                         !.doc_urls =
                            ForBody(Absolute(Head(frame.links), frame.crawling),
                                    frame.tocrawl, frame.crawled,
                                    frame.doc_urls).doc_urls,
                         !.links = Tail(frame.links),
                         !.pc = IF Tail(frame.links) = <<>> THEN "pop"
                                ELSE "links"]
          /\ fs' = [fs EXCEPT ![frame.out] =
                      File(fs[frame.out].text
                           \o ForBody(Absolute(Head(frame.links),
                                               frame.crawling),
                                      frame.tocrawl, frame.crawled,
                                      frame.doc_urls).written)]
          /\ UNCHANGED <<log, cli>>
  /\ UNCHANGED <<configXMLString, requests, gsaWI>>

(* lines 603-608 with tocrawl empty: pop raises KeyError, the handler      *)
(* raises StopIteration, and nothing in getAllUrls or in the script        *)
(* catches it                                                              *)
PopEmpty ==
  /\ cli.pc \in {"none", "crawl"}
  /\ frame.pc = "pop"
  /\ frame.tocrawl = {}
  /\ frame' = [frame EXCEPT !.pc = "over"]
  /\ CrawlEnd(Raise("StopIteration"))
  /\ UNCHANGED <<configXMLString, fs, requests, gsaWI>>

CrawlNext ==
  \/ ParseOptions
  \/ EnterBranch
  \/ \E ioerror \in BOOLEAN : CliOpenOutput(ioerror)
  \/ \E response \in LoginResponses : CrawlLogin(response)
  \/ \E answer \in FetchAnswers, links \in LinkLists :
       Fetch(answer, links)
  \/ Link
  \/ PopEmpty
  \/ \E response \in {"ok", "no_answer"} : CliDel(response)

(* the script runs on: every request is answered or fails *)
CrawlSpec == CrawlInit /\ [][CrawlNext]_vars /\ WF_vars(CrawlNext)

(***************************************************************************)
(* The whole script.  The pages of the crawl hold no link or the link of   *)
(* one document.                                                           *)
(***************************************************************************)
CliLinkLists == {<<>>, <<DocLink("&amp;", "uriAt=http%3A%2F%2Fa%2Fx")>>}

CliNext ==
  \/ ParseOptions
  \/ EnterBranch
  \/ CliOpenFile
  \/ CliSign
  \/ CliWriteFile
  \/ CliVerify
  \/ CliImportVerify
  \/ CliCall
  \/ \E ioerror \in BOOLEAN : CliOpenOutput(ioerror)
  \/ CusReadFile
  \/ \E response \in LoginResponses : OpLogin(response)
  \/ \E login \in LoginResponses, response \in TokenResponses :
        AdminToken(login, response)
  \/ \E answer \in Answers : OpRequest(answer)
  \/ SyncDatabase
  \/ Generate
  \/ \E answer \in {"generating", "generated", "no_answer"} :
        GeneratePoll(answer)
  \/ \E answer \in {"list", "no_answer"} : DownloadList(answer)
  \/ \E answer \in Answers : CusSubmit(answer)
  \/ \E answer \in {"running", "ready", "no_answer"} : Poll(answer)
  \/ \E answer \in {"results", "unable", "error", "no_answer"} :
        Download(answer)
  \/ \E response \in LoginResponses : CrawlLogin(response)
  \/ \E answer \in FetchAnswers, links \in CliLinkLists :
       Fetch(answer, links)
  \/ Link
  \/ PopEmpty
  \/ CliAfterCall
  \/ \E response \in {"ok", "no_answer"} : CliDel(response)

CliSpec == CliInit /\ [][CliNext]_vars

(***************************************************************************)
(* One gsaWebInterface instance and a program that calls its admin         *)
(* operations one after the other, with _logout() between them or not.     *)
(* Each operation runs as it does under the script, from its first         *)
(* statement to its last.  The program holds a gsaConfig, with or without  *)
(* contents, for importConfig, the script file "in.xml", which may be      *)
(* missing, and the file "out.xml", opened for writing, for the operations *)
(* that write.                                                             *)
(***************************************************************************)
AdminActions == Branches \ {"sign", "verify"}

(* the arguments of the call: the script file, the output file, the        *)
(* databases db1 and db2 and a timeout of 4 seconds                        *)
Arguments(action) ==
  [action |-> action, inputFile |-> "in.xml", outputFile |-> "out.xml",
   sources |-> <<"db1", ",", "db2">>, timeout |-> <<"4">>]

(* the answers to the one request of an operation that the appliance of    *)
(* this program gives                                                      *)
LoginAnswers == {"ok", "refused", "no_answer"}

LoginInit ==
  /\ \/ /\ configXMLString = NoContents
        /\ fs = [path \in Paths |-> IF path = "in.xml" THEN NoFile
                                     ELSE File(<<>>)]
     \/ /\ configXMLString = SignedDoc
        /\ fs = [path \in Paths |-> IF path = "in.xml"
                                     THEN File(<<Chr("script")>>)
                                     ELSE File(<<>>)]
  /\ log = <<>>
  /\ cli = NoCli
  /\ requests = <<>>
  /\ gsaWI = gsaWebInterface
  /\ frame = [op |-> "", pc |-> "idle"]

(* the program calls the method of the action *)
AdminCall(action) ==
  /\ frame.pc \in {"idle", "done"}
  /\ Over < MaxOps
  /\ frame' = StartFrame(Arguments(action))
  /\ UNCHANGED <<configXMLString, log, fs, cli, requests, gsaWI>>

(* _logout() between two operations *)
Logout(response) ==
  /\ frame.pc \in {"idle", "done"}
  /\ Over < MaxOps
  /\ gsaWI' = _logout(gsaWI, response).self
  /\ requests' = requests \o _logout(gsaWI, response).sent
  /\ log' = Append(log, Call("_logout", "", response,
                             _logout(gsaWI, response).out))
  /\ frame' = [op |-> "_logout", pc |-> Ended(_logout(gsaWI, response).out)]
  /\ UNCHANGED <<configXMLString, fs, cli>>

(* __del__, lines 295-296, when the process ends: _logout, an exception    *)
(* of which is ignored                                                     *)
Del(response) ==
  /\ frame.pc \in {"idle", "done", "exit", "crash", "over"}
  /\ gsaWI' = _logout(gsaWI, response).self
  /\ requests' = requests \o _logout(gsaWI, response).sent
  /\ frame' = [frame EXCEPT !.pc = "gone"]
  /\ UNCHANGED <<configXMLString, log, fs, cli>>

LoginNext ==
  \/ \E action \in AdminActions : AdminCall(action)
  \/ CusReadFile
  \/ \E response \in LoginResponses : OpLogin(response)
  \/ \E login \in LoginResponses, response \in TokenResponses :
        AdminToken(login, response)
  \/ \E answer \in LoginAnswers : OpRequest(answer)
  \/ SyncDatabase
  \/ Generate
  \/ \E answer \in {"generating", "generated", "no_answer"} :
        GeneratePoll(answer)
  \/ \E answer \in {"list", "no_answer"} : DownloadList(answer)
  \/ \E answer \in LoginAnswers : CusSubmit(answer)
  \/ \E answer \in {"running", "ready", "no_answer"} : Poll(answer)
  \/ \E answer \in {"results", "unable", "error", "no_answer"} :
        Download(answer)
  \/ \E response \in LoginResponses : CrawlLogin(response)
  \/ \E answer \in FetchAnswers, links \in CliLinkLists :
       Fetch(answer, links)
  \/ Link
  \/ PopEmpty
  \/ \E response \in {"ok", "no_answer"} : Logout(response)
  \/ \E response \in {"ok", "no_answer"} : Del(response)

LoginSpec == LoginInit /\ [][LoginNext]_vars

(***************************************************************************)
(* Vocabulary of the properties.                                           *)
(***************************************************************************)
Last == log[Len(log)]
LastIs(op) == log # <<>> /\ Last.op = op
Returned(call) == call.out.kind = "return"
Raised(call) == call.out.kind = "raise"
True == Return(One)
False == Return(None)

(* the step appends a call of op to the log *)
Calls(op) == Len(log') = Len(log) + 1 /\ log'[Len(log')].op = op

HasElement(s, tag) == \E i \in 1..Len(s) : s[i] \in {Open(tag), Empty(tag)}

(* ten spaces stand directly before the uam_dir tag *)
Indented(s) ==
  \E i \in 1..(Len(s) - 1) :
     s[i] = SP10 /\ s[i + 1] \in {Open("uam_dir"), Empty("uam_dir")}

(* the first child of the first element tag is a Text or CDATASection *)
CarriesText(s, tag) ==
  LET d == parseString(s)
      n == Item0(d, tag)
  IN n # 0 /\ HasValue(d, firstChild(d, n))

(* the data of that first child *)
TextOf(s, tag) ==
  LET d == parseString(s) IN d[firstChild(d, Item0(d, tag))].v

(* the first element a lies inside the first element b *)
Inside(s, a, b) ==
  LET d == parseString(s)
      m == Item0(d, a)
      n == Item0(d, b)
  IN m # 0 /\ n # 0 /\ n < m /\ m < EndOf(d, n)

FourElements(s) ==
  /\ HasElement(s, "uam_dir") /\ HasElement(s, "uar_data")
  /\ HasElement(s, "config") /\ HasElement(s, "signature")

(* the bytes a returned digest was computed over *)
Hashed(call) == call.out.val.v

(* C1: sign(pw) followed by verifySignature(pw) on the same gsaConfig      *)
(* returns true for every well-formed document with the uam_dir, uar_data, *)
(* config and signature elements; stated here for the plainest documents   *)
(* the claim covers: signature outside config, uar_data and signature      *)
(* carrying text.                                                          *)
C1_RoundTrip ==
  (/\ Len(log) >= 2
   /\ log[Len(log) - 1].op = "sign"
   /\ Last.op = "verifySignature"
   /\ Last.pw = log[Len(log) - 1].pw
   /\ FourElements(configXMLString)
   /\ ~Inside(configXMLString, "signature", "config")
   /\ CarriesText(configXMLString, "uar_data")
   /\ CarriesText(configXMLString, "signature"))
  => Last.out = True

(* the last three calls: sign, which returned, a change of the stored text *)
(* and verifySignature with the password of sign                           *)
SignTamperVerify ==
  /\ Len(log) >= 3
  /\ log[Len(log) - 2].op = "sign"
  /\ Returned(log[Len(log) - 2])
  /\ log[Len(log) - 1].op = "setXMLContents"
  /\ log[Len(log) - 1].kind \in TamperKinds
  /\ Last.op = "verifySignature"
  /\ Last.pw = log[Len(log) - 2].pw

C3_NoUamAfterSign ==
  /\ (LastIs("sign") /\ Returned(Last) /\ Indented(configXMLString))
     => ~HasElement(configXMLString, "uam_dir")
  /\ (/\ Len(log) >= 2
      /\ log[Len(log) - 1].op = "sign" /\ Returned(log[Len(log) - 1])
      /\ Last.op = "writeFile" /\ Returned(Last)
      /\ Indented(configXMLString))
     => ~HasElement(fs[Last.kind].text, "uam_dir")

(* the text s without the ten spaces before and the newline after its      *)
(* first uam_dir element, whichever way the element is written             *)
UamWsRemoved(s) ==
  LET e == First(s, Empty("uam_dir"))
      o == First(s, Open("uam_dir"))
      b == IF o # 0 /\ (e = 0 \/ o < e) THEN o ELSE e
      c == IF b = o THEN First(s, Close("uam_dir")) ELSE e
      s1 == IF b # 0 /\ c < Len(s) /\ s[c + 1] = NL THEN Remove(s, c + 1) ELSE s
  IN IF b > 1 /\ s[b - 1] = SP10 THEN Remove(s1, b - 1) ELSE s1

(* C4: the bytes hashed by computeSignature contain neither a uam_dir      *)
(* element nor the white space that surrounded it (the ten spaces before   *)
(* and the newline after): they are the bytes hashed for the same document *)
(* written without that white space.                                       *)
C4_HashedWithoutUam ==
  (LastIs("computeSignature") /\ Returned(Last))
  => /\ ~HasElement(Hashed(Last), "uam_dir")
     /\ Last.out = computeSignature(UamWsRemoved(configXMLString), Last.pw)

(* C5: for every document and distinct passwords A and B (eight characters *)
(* or more), sign(A) followed by verifySignature(B) returns false.         *)
C5_WrongPassword ==
  (/\ Len(log) >= 2
   /\ log[Len(log) - 1].op = "sign"
   /\ Returned(log[Len(log) - 1])
   /\ Last.op = "verifySignature"
   /\ Last.pw # log[Len(log) - 1].pw
   /\ Len(Last.pw) >= 8 /\ Len(log[Len(log) - 1].pw) >= 8)
  => Last.out = False

(* two computeSignature calls with one password and nothing but            *)
(* computeSignature and verifySignature calls between them                 *)
SameInput(i, j) ==
  /\ i < j
  /\ log[i].op = "computeSignature" /\ log[j].op = "computeSignature"
  /\ log[i].pw = log[j].pw
  /\ \A k \in i..j : log[k].op \in {"computeSignature", "verifySignature"}

(* C6: a computeSignature or verifySignature call leaves the stored        *)
(* content configXMLString as it was, and over any sequence of such calls  *)
(* every computeSignature(pw) with the same pw gives the same digest.      *)
C6_NoSideEffect ==
  /\ [][(Calls("computeSignature") \/ Calls("verifySignature"))
        => configXMLString' = configXMLString]_vars
  /\ [](\A i, j \in 1..Len(log) : SameInput(i, j) => log[i].out = log[j].out)

C6_Witness ==
  /\ Len(log) >= 3
  /\ SameInput(1, 3)
  /\ log[2].op = "verifySignature"
  /\ Returned(log[1]) /\ Returned(log[3])
  /\ Indented(configXMLString)
  /\ ReSubNewline(ReSubIndent(configXMLString)) # configXMLString

(* C7: on a document without a signature element, or whose signature       *)
(* element has no text child, sign(pw) and verifySignature(pw) both fail   *)
(* with an error (they return nothing), and the failed sign leaves the     *)
(* stored content unchanged.                                               *)
C7_SignatureMissing ==
  /\ []((/\ log # <<>>
         /\ Last.op \in {"sign", "verifySignature"}
         /\ ~CarriesText(configXMLString, "signature"))
        => Raised(Last))
  /\ [][(Calls("sign") /\ ~CarriesText(configXMLString, "signature"))
        => configXMLString' = configXMLString]_vars

Missing(s) ==
  \/ ~HasElement(s, "uam_dir")
  \/ ~HasElement(s, "uar_data")
  \/ ~HasElement(s, "config")

(* C8: if uam_dir, uar_data or config is absent, computeSignature fails    *)
(* with an error and returns no digest, sign fails and leaves the stored   *)
(* content unchanged, and verifySignature returns neither true nor false.  *)
C8_ElementMissing ==
  /\ []((/\ log # <<>>
         /\ Last.op \in {"computeSignature", "sign", "verifySignature"}
         /\ Missing(configXMLString))
        => Raised(Last))
  /\ [][(Calls("sign") /\ Missing(configXMLString))
        => configXMLString' = configXMLString]_vars

C8_Witness ==
  /\ LastIs("sign") /\ Raised(Last)
  /\ ~HasElement(configXMLString, "config")
  /\ HasElement(configXMLString, "uam_dir")
  /\ CarriesText(configXMLString, "uar_data")
  /\ CarriesText(configXMLString, "signature")

(* what stands between <tag> and </tag> of the first element tag in the    *)
(* text s (nothing for <tag/>)                                             *)
ContentOf(s, tag) ==
  LET o == First(s, Open(tag))
      c == First(s, Close(tag))
  IN IF o = 0 THEN <<>> ELSE SubSeq(s, o + 1, c - 1)

(* uar_data has no text at all, or white space only *)
UarBlank(s) ==
  /\ HasElement(s, "uar_data")
  /\ \A i \in 1..Len(ContentOf(s, "uar_data")) :
        IsSpace(ContentOf(s, "uar_data")[i])

(* C9: on a document whose uar_data is blank (no text at all, or white     *)
(* space only) computeSignature completes without error and the content    *)
(* of uar_data in the hashed bytes is the original content.                *)
C9_BlankUarData ==
  (/\ LastIs("computeSignature")
   /\ UarBlank(configXMLString)
   /\ HasElement(configXMLString, "uam_dir")
   /\ HasElement(configXMLString, "config"))
  => /\ Returned(Last)
     /\ ContentOf(Hashed(Last), "uar_data") = ContentOf(configXMLString, "uar_data")

UarNonBlank(s) ==
  CarriesText(s, "uar_data") /\ Strip(TextOf(s, "uar_data")) # <<>>

(* the pieces of character data in the text s, those of CDATA included *)
AtomsOf(s) ==
  {s[i] : i \in {j \in 1..Len(s) : IsAtom(s[j])}}
  \cup UNION {{s[i].v[m] : m \in 1..Len(s[i].v)} :
                i \in {j \in 1..Len(s) : s[j].k = "cdata"}}

(* C10: when the text v of uar_data is non-blank, the text of uar_data in  *)
(* the hashed bytes is newline, "/tmp/tmp_uar_data_dir,", the digest of    *)
(* strip(v) + newline under the password of the outer digest, newline,     *)
(* ten spaces, and the original value occurs nowhere in the hashed bytes.  *)
C10_UarDataReplaced ==
  (/\ LastIs("computeSignature")
   /\ Returned(Last)
   /\ UarNonBlank(configXMLString))
  => LET v == TextOf(configXMLString, "uar_data")
         h == Hashed(Last)
     IN /\ Last.out.val.t = Last.pw
        /\ CarriesText(h, "uar_data")
        /\ TextOf(h, "uar_data")
             = <<NL, UarDummy, Hmac(Last.pw, Strip(v) \o <<NL>>), NL, SP10>>
        /\ \A i \in 1..Len(Strip(v)) : Strip(v)[i] \notin AtomsOf(h)

C10_Witness ==
  /\ LastIs("computeSignature")
  /\ Returned(Last)
  /\ UarNonBlank(configXMLString)
  /\ TextOf(configXMLString, "uar_data") # Strip(TextOf(configXMLString, "uar_data"))
  /\ Chr("A") \in AtomsOf(configXMLString)
  /\ UarDummy \in AtomsOf(Hashed(Last))

(* the character data of all Text and CDATASection nodes i..j of d *)
RECURSIVE DataFrom(_, _, _)
DataFrom(d, i, j) ==
  IF i > j THEN <<>>
  ELSE (IF d[i].k \in {"text", "cdata"} THEN d[i].v ELSE <<>>)
       \o DataFrom(d, i + 1, j)

(* the text content of the first element tag of the text s *)
TextContent(s, tag) ==
  LET d == parseString(s)
      n == Item0(d, tag)
  IN IF n = 0 THEN <<>> ELSE DataFrom(d, n + 1, EndOf(d, n) - 1)

(* C11: on a document whose signature element has text content,            *)
(* verifySignature(pw) returns true exactly when the digest computed by    *)
(* computeSignature(pw) occurs in the text content of the signature        *)
(* element (white space around the digest, a white space text node before  *)
(* a CDATA section holding it included), and returns false otherwise: it   *)
(* never raises.                                                           *)
C11_DigestInSignatureText ==
  (/\ LastIs("verifySignature")
   /\ computeSignature(configXMLString, Last.pw).kind = "return"
   /\ TextContent(configXMLString, "signature") # <<>>)
  => /\ Last.out \in {True, False}
     /\ Last.out = True
          <=> Count(TextContent(configXMLString, "signature"),
                    computeSignature(configXMLString, Last.pw).val) > 0

(* the nodes of d without the children of its first element tag *)
WithoutContent(d, tag) ==
  LET n == Item0(d, tag)
  IN IF n = 0 THEN d
     ELSE SubSeq(d, 1, n) \o SubSeq(d, EndOf(d, n), Len(d))

(* C12: whenever sign(pw) completes, the stored content is the             *)
(* serialization of the whole document tree, in which the text of the      *)
(* first signature element is exactly the digest computeSignature(pw)      *)
(* gives on the content before sign and every other node is as before;     *)
(* getXMLContents gives this serialized form.                              *)
C12_SignStoresDocument ==
  [][(Calls("sign") /\ Returned(log'[Len(log')]))
     => /\ getXMLContents(configXMLString').val
             = DocToXml(parseString(configXMLString'))
        /\ parseString(configXMLString')[1] = Open("eef")
        /\ TextContent(configXMLString', "signature")
             = <<computeSignature(configXMLString, log'[Len(log')].pw).val>>
        /\ WithoutContent(parseString(configXMLString'), "signature")
             = WithoutContent(parseString(configXMLString), "signature")]_vars

(* the first <eef> tag of the text s is the first thing on its line *)
EefOnOwnLine(s) ==
  LET o == First(s, Open("eef"))
  IN o # 0 /\ (o = 1 \/ s[o - 1] = NL)

(* C13: after sign(pw) completes, the stored content, as getXMLContents    *)
(* returns it and importConfig sends it, has the <eef> root tag on a line  *)
(* of its own: a newline stands between the XML declaration and <eef>.     *)
C13_EefOnOwnLineAfterSign ==
  (LastIs("sign") /\ Returned(Last))
  => EefOnOwnLine(getXMLContents(configXMLString).val)

(* C14: writeFile(path) on a path that exists ends with the already-exists *)
(* error outcome (the "Output file exists" exit), writes nothing, and      *)
(* leaves the file at that path, every other file and the content held in  *)
(* memory as they were.                                                    *)
C14_WriteCollision ==
  [][(Calls("writeFile") /\ fs[log'[Len(log')].kind].exists)
     => /\ log'[Len(log')].out = Exit("1")
        /\ fs' = fs
        /\ configXMLString' = configXMLString]_vars

C14_Witness ==
  /\ LastIs("writeFile")
  /\ Last.out = Exit("1")
  /\ fs[Last.kind].exists
  /\ WellFormed(configXMLString)
  /\ fs[Last.kind].text # ReplaceEef(DocToXml(parseString(configXMLString)))
  /\ \E i \in 1..Len(log) : log[i].op = "sign" /\ Returned(log[i])

CoreOps == {"openFile", "computeSignature", "sign", "verifySignature",
            "writeFile"}

(* C15: no call of openFile, computeSignature, sign, verifySignature or    *)
(* writeFile ends the process: each returns a result or raises an error.   *)
C15_CoreNeverExits ==
  \A i \in 1..Len(log) :
     log[i].op \in CoreOps => log[i].out.kind \in {"return", "raise"}

(* the atoms of s that the step keeps in the stored content *)
Kept(x) == x \in AtomsOf(configXMLString) => x \in AtomsOf(configXMLString')

(* C18: every element lookup takes the first match in document order.  Of  *)
(* a document that holds an element twice, computeSignature removes the    *)
(* first uam_dir (D) and keeps the later one (D2) in the hashed bytes,     *)
(* substitutes the first uar_data (A) and keeps the later one (A2), and    *)
(* hashes the first config element, not the later one (C2); sign writes    *)
(* the digest into the first signature (OLD) and leaves the later one      *)
(* (OLD2) as it was, and verifySignature reads the first signature only:   *)
(* the right digest in the later signature does not make it true.          *)
C18_FirstMatch ==
  /\ []((LastIs("computeSignature") /\ Returned(Last))
        => LET a == AtomsOf(configXMLString)
               h == AtomsOf(Hashed(Last))
           IN /\ Chr("D") \notin h
              /\ (Chr("D2") \in a => Chr("D2") \in h)
              /\ Chr("A") \notin h
              /\ (Chr("A2") \in a => Chr("A2") \in h)
              /\ Chr("C2") \notin h
              /\ Hashed(Last)[1] = Open("config"))
  /\ [][(Calls("sign") /\ Returned(log'[Len(log')]))
        => /\ Chr("OLD") \notin AtomsOf(configXMLString')
           /\ computeSignature(configXMLString, log'[Len(log')].pw).val
                = TextOf(configXMLString', "signature")[1]
           /\ Kept(Chr("OLD2")) /\ Kept(Chr("D")) /\ Kept(Chr("D2"))
           /\ Kept(Chr("A")) /\ Kept(Chr("A2")) /\ Kept(Chr("C2"))]_vars
  /\ []((/\ LastIs("verifySignature")
         /\ TextOf(configXMLString, "signature") = <<NL, Chr("OLD"), NL>>)
        => Last.out = False)

C18_Witness ==
  /\ Len(log) >= 2
  /\ log[1].op = "computeSignature" /\ Returned(log[1])
  /\ log[1].out.val \in AtomsOf(configXMLString)
  /\ LastIs("verifySignature")
  /\ Last.pw = log[1].pw
  /\ Last.out = False

(* some call of op in the log gave the outcome out *)
Gave(op, out) == \E i \in 1..Len(log) : log[i].op = op /\ log[i].out = out

HasCall(op) == \E i \in 1..Len(log) : log[i].op = op

(* C16: in the import action verifySignature is evaluated before any HTTP  *)
(* request is issued, and a mismatch does not stop the import: importConfig*)
(* is the method called next, a process that ends normally has sent the    *)
(* upload, and the document every upload carries is the input file as it   *)
(* was read; in the verify action a mismatch ends the process with exit    *)
(* code 1.                                                                 *)
C16_ImportWarnsVerifyExits ==
  /\ ((cli.action = "import" /\ requests # <<>>)
        => \E i \in 1..Len(log) :
              log[i].op = "verifySignature" /\ Returned(log[i]))
  /\ ((cli.action = "import" /\ Gave("verifySignature", False))
        => /\ cli.pc \in {"import", "call", "done", "exit", "crash"}
           /\ cli.pc # "import"
                => /\ frame.pc # "none"
                   /\ frame.op = "importConfig"
           /\ cli.pc = "done"
                => \E k \in 1..Len(requests) :
                      requests[k].req = "POST importExport"
           /\ \A k \in 1..Len(requests) :
                 requests[k].req = "POST importExport"
                   => requests[k].body = fs[cli.inputFile].text)
  /\ ((cli.action = "verify" /\ Gave("verifySignature", False))
        => cli.pc = "exit" /\ Last = SysExit("1"))

C16_Witness ==
  /\ cli.action = "import"
  /\ Gave("verifySignature", False)
  /\ cli.pc = "done"
  /\ requests[Len(requests)] = Request("POST importExport", FullDoc)

(* the options the sign or the verify action asks for are not all given *)
SignOptionMissing ==
  \/ /\ cli.flags = {"sign"}
     /\ \/ cli.inputFile = "" \/ cli.outputFile = ""
        \/ Len(cli.signpassword) < 8
  \/ /\ cli.flags = {"verify"}
     /\ (cli.inputFile = "" \/ Len(cli.signpassword) < 8)

(* C17: the sign action calls gsaConfig.sign only if an input file, an     *)
(* output file and a sign password of at least 8 characters were given,    *)
(* the verify action calls verifySignature only if an input file and such  *)
(* a password were given; when one of them is missing the process stops    *)
(* with exit code 3 only, and no file is read or written before.           *)
C17_SignVerifyOptions ==
  /\ [](HasCall("sign")
         => /\ cli.inputFile # "" /\ cli.outputFile # ""
            /\ Len(cli.signpassword) >= 8)
  /\ []((cli.action = "verify" /\ HasCall("verifySignature"))
         => cli.inputFile # "" /\ Len(cli.signpassword) >= 8)
  /\ [](SignOptionMissing
         => /\ cli.pc \in {"start", "branch", "exit"}
            /\ cli.pc = "exit" => log = <<SysExit("3")>>
            /\ ~HasCall("openFile") /\ ~HasCall("writeFile")
            /\ configXMLString = NoContents)
  /\ [][SignOptionMissing => fs' = fs]_vars

(* C19: a sign or verify invocation with valid file and sign password      *)
(* options and without the -n, -u and -p options is not stopped by the     *)
(* host, user name and password checks: it does not exit with code 3.      *)
C19_HostChecksSkipped ==
  (/\ cli.flags \in {{"sign"}, {"verify"}}
   /\ ~SignOptionMissing
   /\ cli.gsaHostName = "" /\ cli.gsaUsername = "" /\ cli.gsaPassword = ""
   /\ cli.pc # "start")
  => /\ cli.action \in {"sign", "verify"}
     /\ ~Gave("__main__", Exit("3"))

(* the sign password, the -t option and the host options pass the checks   *)
(* of the script                                                           *)
OptionsPass ==
  /\ (cli.flags \cap {"actimport", "export", "sign", "verify"} # {}
        => Len(cli.signpassword) >= 8)
  /\ (cli.timeout # <<>> => IsInt(cli.timeout))
  /\ cli.gsaHostName # "" /\ cli.gsaUsername # "" /\ cli.gsaPassword # ""

(* C20: for every combination of the thirteen action options: with none or *)
(* with two or more of them set the process stops with exit code 3 before  *)
(* it does anything; an action branch is reached only if exactly one is    *)
(* set, and it is the branch of that option; and with exactly one set (the *)
(* sign password, -t and host options passing their checks) its branch is  *)
(* reached.                                                                *)
C20_ExactlyOneAction ==
  /\ ((Cardinality(cli.flags) # 1 /\ cli.pc # "start")
        => /\ cli.pc = "exit" /\ cli.action = ""
           /\ log = <<SysExit("3")>>
           /\ requests = <<>> /\ configXMLString = NoContents)
  /\ (cli.action # ""
        => /\ Cardinality(cli.flags) = 1
           /\ cli.action \in Branches
           /\ \E i \in 1..Len(FlagOrder) :
                 cli.flags = {FlagOrder[i][1]} /\ cli.action = FlagOrder[i][2])
  /\ ((Cardinality(cli.flags) = 1 /\ OptionsPass /\ cli.pc # "start")
        => cli.action # "")

(* the step hands a request of this name to _openurl *)
Sent(name) ==
  \E k \in (Len(requests) + 1)..Len(requests') : requests'[k].req = name

(* the step sends a request that is not part of _login or _logout *)
SentAction ==
  \E k \in (Len(requests) + 1)..Len(requests') :
     requests'[k].req \notin {"GET baseURL", "POST authenticateUser",
                              "GET actionType=logout"}

(* a login response was recognised: _login sent its requests and returned *)
Recognised ==
  \E i \in 1..Len(log) :
     log[i].op = "_login" /\ log[i].kind \in {"home", "home72"}
       /\ Returned(log[i])

(* C21: on one gsaWebInterface instance, over any sequence of admin        *)
(* operations and _logout calls: authenticateUser is sent only while       *)
(* loggedIn is not true, and a _logout lies between any two of them; a     *)
(* request of an operation (its form page or its action) is sent only      *)
(* when a login response was recognised and loggedIn is true; is72 is set  *)
(* whenever loggedIn is true; an unrecognised login response ends the      *)
(* process with exit code 2 while loggedIn is not true.                    *)
C21_LoginSession ==
  /\ [][Sent("POST authenticateUser") => gsaWI.loggedIn # PyTrue]_vars
  /\ [](\A i \in 1..Len(requests), j \in 1..Len(requests) :
          (i < j /\ requests[i].req = "POST authenticateUser"
                 /\ requests[j].req = "POST authenticateUser")
            => \E k \in (i + 1)..(j - 1) : requests[k] = LogoutRequest)
  /\ [][SentAction => Recognised /\ gsaWI.loggedIn = PyTrue]_vars
  /\ [](gsaWI.loggedIn = PyTrue => gsaWI.is72 \in {PyTrue, PyFalse})
  /\ [](\A i \in 1..Len(log) :
          (log[i].op = "_login" /\ log[i].kind = "other")
            => /\ log[i].out = Exit("2")
               /\ i = Len(log)
               /\ gsaWI.loggedIn # PyTrue
               /\ frame.pc \in {"exit", "over", "gone"})

(* an operation returned after the login that followed a _logout *)
C21_Witness ==
  /\ Count(requests, Request("POST authenticateUser", <<>>)) = 2
  /\ Count(requests, LogoutRequest) = 1
  /\ Cardinality({i \in 1..Len(log) :
                    log[i].op \in AdminOps /\ Returned(log[i])}) = 2
  /\ gsaWI.loggedIn = PyTrue
  /\ gsaWI.is72 = PyTrue

(* the polls so far that reported a running script *)
RunningPolls ==
  Cardinality({i \in 1..Len(log) :
                 log[i].op = "_openurl" /\ log[i].kind = "running"})

(* a poll reported that no script is running *)
ReadyPoll ==
  \E i \in 1..Len(log) : log[i].op = "_openurl" /\ log[i].kind = "ready"

(* runCusSscript is over: it returned, raised or ended the process *)
CusOver == frame.pc \in {"done", "exit", "crash"}

(* the process was ended by the timeout of the polling loop *)
TimedOut ==
  IF frame.pc = "exit" /\ Len(log) >= 2
  THEN log[Len(log) - 1].op = "_openurl" /\ log[Len(log) - 1].kind = "running"
  ELSE FALSE

Max(a, b) == IF a >= b THEN a ELSE b

(* what holds of the loop whatever the timeout: it is left at the first    *)
(* poll that does not report a running script, the process ends with code  *)
(* 1 as soon as 4 seconds per running poll exceed the timeout, and the     *)
(* download request is sent only after a poll reported no running script   *)
PollLoop ==
  /\ <>CusOver
  /\ [][(frame.pc = "poll" /\ Calls("_openurl")
           /\ log'[Len(log')].kind = "ready") => frame'.pc = "download"]_vars
  /\ [](TimedOut => /\ Last.out = Exit("1")
                    /\ sleeptime * RunningPolls > frame.timeout)
  /\ []((frame.pc = "poll" /\ RunningPolls > 0)
          => sleeptime * RunningPolls <= frame.timeout)
  /\ [][Sent("POST supportScripts download") => ReadyPoll]_vars

(* C22 as stated: the loop always terminates, leaves at the first poll     *)
(* that reports no running script, exits with code 1 once the wait exceeds *)
(* the timeout, after at most floor(timeout/4)+1 polls that report a       *)
(* running script, and downloads only after a poll reported none running.  *)
C22_PollsAtMostFloor ==
  /\ PollLoop
  /\ [](RunningPolls > 0
          => RunningPolls <= (frame.timeout \div sleeptime) + 1)

(* C22 amended: as stated, with the bound max(1, floor(timeout/4)+1) on    *)
(* the polls that report a running script: the first such poll is made     *)
(* and counted before the wait is compared with the timeout, also when     *)
(* the timeout is negative.                                                *)
C22_PollsAtMostFloorOrOne ==
  /\ PollLoop
  /\ [](RunningPolls > 0
          => RunningPolls <= Max(1, (frame.timeout \div sleeptime) + 1))

(* with a negative timeout the first running poll ended the process *)
C22_Witness ==
  /\ TimedOut
  /\ frame.timeout < 0
  /\ RunningPolls = 1
  /\ Last.out = Exit("1")

(* the sort and view variants of a crawl diagnostics page that are left out *)
ExcludedVariants == {"sort=excluded", "sort=errors", "view=excluded",
                     "view=successful", "view=errors"}

(* a crawl diagnostics URL of the appliance outside the excluded variants *)
SameHostDiagnostics(u) ==
  /\ u[1] = baseURL[1] /\ u[2] = "://" /\ u[3] = baseURL[3]
  /\ Find(u, "actionType=contentDiagnostics")
  /\ \A v \in ExcludedVariants : ~Find(u, v)

(* the lines of a text: the pieces before each newline *)
RECURSIVE LinesFrom(_, _)
LinesFrom(s, line) ==
  IF s = <<>> THEN IF line = <<>> THEN <<>> ELSE <<line>>
  ELSE IF Head(s) = NL THEN <<line>> \o LinesFrom(Tail(s), <<>>)
  ELSE LinesFrom(Tail(s), Append(line, Head(s)))
Lines(s) == LinesFrom(s, <<>>)

(* what getAllUrls wrote to the output file so far *)
Written == IF cli.pc \in {"start", "branch", "other"} \/ cli.outputFile = ""
           THEN <<>>
           ELSE Lines(fs[cli.outputFile].text)

(* C23: in every state of the crawl of getAllUrls: tocrawl and crawled are *)
(* disjoint and no URL in crawled is requested again; every URL in tocrawl *)
(* or crawled is a crawl diagnostics URL of the appliance itself outside   *)
(* the excluded sort and view variants; and no document URL stands twice   *)
(* in the output.                                                          *)
C23_CrawlInvariants ==
  /\ [](frame.pc # "none" => frame.tocrawl \cap frame.crawled = {})
  /\ [][Sent("GET") => requests'[Len(requests')].body \notin frame.crawled]_vars
  /\ [](frame.pc # "none"
          => \A u \in frame.tocrawl \cup frame.crawled :
                SameHostDiagnostics(u))
  /\ [](\A i \in 1..Len(Written), j \in 1..Len(Written) :
          Written[i] = Written[j] => i = j)
  /\ [](frame.pc # "none" => Len(Written) = Cardinality(frame.doc_urls))

(* two pages were crawled and two document URLs written *)
C23_Witness ==
  /\ frame.pc = "pop"
  /\ frame.tocrawl = {}
  /\ Cardinality(frame.crawled) = 2
  /\ Cardinality(frame.doc_urls) = 2
  /\ Len(Written) = 2

(* the crawl has started and tocrawl is empty *)
WorklistEmpty == IF frame.pc = "none" THEN FALSE ELSE frame.tocrawl = {}

(* C24: once the crawl of getAllUrls has started, the worklist eventually  *)
(* is empty and getAllUrls returns to the all_urls action, which closes    *)
(* the output file and logs that all URLs were exported.                   *)
C24_CrawlReturns ==
  (frame.pc = "pop")
    ~> (WorklistEmpty /\ Gave("getAllUrls", Return(None)) /\ cli.pc = "done")

====
